---- MODULE Spec2Model ----
(***************************************************************************)
(* A model of the PMOVES token simulator: the weekly simulation loop of    *)
(* pmoves_backend/simulator.py, the member record of                       *)
(* pmoves_backend/models.py and the metrics engine of                      *)
(* pmoves_backend/metrics.py.                                              *)
(*                                                                         *)
(* Numbers.  Money, token counts and the standard deviates are integers.   *)
(* A percentage (the two savings rates, the spend propensity) is held in   *)
(* halves: 0, 1, 2 stand for 0.0, 0.5, 1.0.  The two *_LOG parameters are  *)
(* held in base-2 logarithms, so exp(x) is 2^x.  Weekly food budgets are   *)
(* multiples of 8, which keeps every product of a budget, a propensity and *)
(* a savings rate integral.  A ratio (Gini, poverty rate, a uniform draw   *)
(* scaled by a constant) is a record [num, den] with den > 0.              *)
(*                                                                         *)
(* Floating point.  numpy sums and products are float64 operations: every  *)
(* result is rounded to the nearest representable value, ties to even.     *)
(* The model keeps that rounding with a mantissa of MantissaBits bits      *)
(* (53 in float64), applied where calculate_gini multiplies and sums.      *)
(***************************************************************************)
EXTENDS Integers, Sequences, FiniteSets, TLC

VARIABLES
    pc,                     \* phase of run_simulation
    params,                 \* the caller's parameter mapping
    sim_params,             \* DEFAULT_PARAMS overlaid with params
    members,                \* the list of SimMember
    week,                   \* loop variable of "for week in range(...)"
    member_idx,             \* members already visited in the current week
    current_wealth_A_list,
    current_wealth_B_list,
    simulation_history,
    key_events,
    metrics_calculator,     \* EconomicMetrics: previous_metrics, current_week
    results,                \* the returned bundle
    log,                    \* logger.exception records
    py_random,              \* state of the random module's generator
    np_random,              \* state of numpy's global generator
    seed,                   \* the seed both generators were started from
    run,                    \* 1 for the first call, 2 for the repeated one
    first_results,          \* bundle returned by the first call
    call,                   \* the call the caller makes: function, arguments, result
    other                   \* the frame of the server thread that is not running

simVars == <<pc, params, sim_params, members, week, member_idx,
             current_wealth_A_list, current_wealth_B_list,
             simulation_history, key_events, metrics_calculator,
             results, log, py_random, np_random>>
driverVars == <<seed, run, first_results, other>>
vars == <<simVars, driverVars, call>>

----------------------------------------------------------------------------
(* Bounds of the model *)

MaxLen == 5             \* longest wealth list handed to a metrics function
MantissaBits == 10      \* mantissa width of the modelled float format
MaxSeed == 15           \* seeds 0..MaxSeed
MaxMembers == 3         \* NUM_MEMBERS ranges over -1..MaxMembers
MaxWeeks == 3           \* SIMULATION_WEEKS ranges over 1..MaxWeeks
MaxTestMembers == 2     \* members handed to a member-based metrics function
MaxThreadMembers == 2   \* NUM_MEMBERS of a request served next to another one
MaxThreadWeeks == 2     \* SIMULATION_WEEKS of such a request
MaxHistoryLen == 11     \* longest history handed to analyze_economic_phases

----------------------------------------------------------------------------
(* Arithmetic helpers *)

Max(a, b) == IF a >= b THEN a ELSE b
Min(a, b) == IF a <= b THEN a ELSE b
Abs(x) == IF x < 0 THEN -x ELSE x

RECURSIVE Pow2(_)
Pow2(k) == IF k <= 0 THEN 1 ELSE 2 * Pow2(k - 1)

RECURSIVE BitLen(_)
BitLen(n) == IF n = 0 THEN 0 ELSE 1 + BitLen(n \div 2)

(* F applied to the value of e, with e evaluated once.                     *)
WithValue(e, F(_)) == CHOOSE r \in {F(v) : v \in {e}} : TRUE

(* Round a magnitude to MantissaBits significant bits, nearest, ties to    *)
(* even.                                                                   *)
RoundMagnitude(a) ==
    LET e == BitLen(a) - MantissaBits
    IN  IF e <= 0 THEN a
        ELSE LET q == a \div Pow2(e)
                 r == a % Pow2(e)
                 half == Pow2(e - 1)
                 up == r > half \/ (r = half /\ q % 2 = 1)
             IN  (IF up THEN q + 1 ELSE q) * Pow2(e)

(* The float nearest to an exact result: rounding is symmetric in the sign. *)
RoundFloat(x) ==
    WithValue(x, LAMBDA v : IF v < 0 THEN -RoundMagnitude(-v) ELSE RoundMagnitude(v))

FlMul(a, b) == RoundFloat(a * b)
FlAdd(a, b) == RoundFloat(a + b)

(* np.sum over a short float64 array: a left-to-right rounded sum.         *)
RECURSIVE np_sum_from(_, _, _)
np_sum_from(s, i, acc) ==
    IF i > Len(s) THEN acc ELSE np_sum_from(s, i + 1, FlAdd(acc, s[i]))
np_sum(s) == WithValue(s, LAMBDA v : np_sum_from(v, 1, 0))

(* np.sort: ascending insertion sort.                                      *)
RECURSIVE Insert(_, _)
Insert(s, x) ==
    IF s = <<>> THEN <<x>>
    ELSE IF x <= Head(s) THEN <<x>> \o s
    ELSE <<Head(s)>> \o Insert(Tail(s), x)
RECURSIVE np_sort(_)
np_sort(s) ==
    IF s = <<>> THEN <<>>
    ELSE WithValue(np_sort(Tail(s)), LAMBDA sorted : Insert(sorted, Head(s)))

(* The exact sum of a list of small integers.                             *)
RECURSIVE Sum(_)
Sum(x) == IF x = <<>> THEN 0 ELSE Head(x) + Sum(Tail(x))

(* Ratios *)
Ratio(n, d) == [num |-> n, den |-> d]
Zero == Ratio(0, 1)

RECURSIVE GCD(_, _)
GCD(a, b) == IF b = 0 THEN a ELSE GCD(b, a % b)

(* The same quotient in lowest terms; 0 is 0/1. *)
Reduced(r) ==
    WithValue(GCD(Abs(r.num), r.den),
              LAMBDA g : IF r.num = 0 THEN Zero ELSE Ratio(r.num \div g, r.den \div g))

(* Parameter values: a number, Python's None, or a float NaN.              *)
Num(v) == [t |-> "num", v |-> v]
NoneValue == [t |-> "None", v |-> 0]
NaN == [t |-> "nan", v |-> 0]
IsNum(x) == x.t = "num"

(* JSON values of a request: a string that is no number, a number with a   *)
(* fractional part (v + 1/2), an integer beyond the range of a float.      *)
Text == [t |-> "str", v |-> 0]
Fractional(v) == [t |-> "frac", v |-> v]
Huge == [t |-> "huge", v |-> 0]

----------------------------------------------------------------------------
(* metrics.py: the inequality functions *)

GiniDenominator(n, wealth) == FlMul(n, np_sum(wealth))

(* Variant: negative entries are kept. *)
wealth_unclamped(wealth_distribution) == wealth_distribution

(* np.maximum(0, np.array(...)) *)
wealth_non_negative(wealth_distribution) ==
    [i \in DOMAIN wealth_distribution |-> Max(0, wealth_distribution[i])]

GiniOfSorted(wealth) ==
    LET n == Len(wealth)
    IN  IF n = 0 THEN Zero
        ELSE LET denominator == GiniDenominator(n, wealth)
             IN  IF denominator = 0 THEN Zero
                 ELSE Ratio(np_sum([i \in 1..n |-> FlMul(2 * i - n - 1, wealth[i])]),
                            denominator)

calculate_gini(wealth_distribution) ==
    WithValue(np_sort(wealth_non_negative(wealth_distribution)), GiniOfSorted)

DefaultFoodBudgetAvg == 75
PovertyLineFactor == 4

(* params.get("WEEKLY_FOOD_BUDGET_AVG", 75) * 4 *)
PovertyLine(p) ==
    (IF "WEEKLY_FOOD_BUDGET_AVG" \in DOMAIN p
     THEN p["WEEKLY_FOOD_BUDGET_AVG"].v ELSE DefaultFoodBudgetAvg) * PovertyLineFactor

(* Variant: a value equal to the line counts as poor. *)
IsPoorInclusive(w, poverty_line) == w <= poverty_line

IsPoor(w, poverty_line) == w < poverty_line

calculate_poverty_rate(p, wealth_list) ==
    LET poverty_line == PovertyLine(p)
    IN  IF wealth_list = <<>> THEN Zero
        ELSE Ratio(Cardinality({i \in DOMAIN wealth_list :
                                   IsPoor(wealth_list[i], poverty_line)}),
                   Len(wealth_list))

(* float("inf") *)
Infinity == Ratio(1, 0)

(* 1e-6, as the number of parts of one unit *)
WealthGapThresholdInverse == 1000000

(* sorted_wealth[lo:hi] of the 0-based slice bounds lo and hi *)
Slice(s, lo, hi) == [i \in 1..(hi - lo) |-> s[lo + i]]

(* Variant: a list of exactly 5 values is too short as well. *)
WealthGapTooShortInclusive(n) == n <= 5

(* len(wealth_list) < 5 *)
WealthGapTooShort(n) == n < 5

(* int(len(wealth_list) * 0.8), int(len(wealth_list) * 0.2) *)
top_20_idx(n) == (8 * n) \div 10
bottom_20_idx(n) == (2 * n) \div 10

WealthGapOfSorted(sorted_wealth) ==
    LET n == Len(sorted_wealth)
        top == Slice(sorted_wealth, top_20_idx(n), n)
        bottom == Slice(sorted_wealth, 0, bottom_20_idx(n))
        top_sum == np_sum(top)
        bottom_sum == np_sum(bottom)
    IN  \* bottom_20_mean <= 1e-6, the mean being bottom_sum / Len(bottom)
        IF bottom_sum * WealthGapThresholdInverse <= Len(bottom) THEN Infinity
        ELSE Ratio(top_sum * Len(bottom), bottom_sum * Len(top))

calculate_wealth_gap(wealth_list) ==
    IF WealthGapTooShort(Len(wealth_list)) THEN Infinity
    ELSE WithValue(np_sort(wealth_non_negative(wealth_list)), WealthGapOfSorted)

----------------------------------------------------------------------------
(* Direct calls of the metrics functions, as the unit tests make them *)

WealthVals == {-5, 0, 300, 345}

RECURSIVE SeqsUpTo(_, _)
SeqsUpTo(S, n) ==
    IF n = 0 THEN {<<>>}
    ELSE LET shorter == SeqsUpTo(S, n - 1)
         IN  shorter \cup {Append(s, x) : s \in {t \in shorter : Len(t) = n - 1}, x \in S}

WealthLists == SeqsUpTo(WealthVals, MaxLen)

(* The wealth of each member of a small community, one entry per member *)
MemberWealthLists == SeqsUpTo(WealthVals, MaxTestMembers)

MetricsParams ==
    { <<>>,
      [k \in {"WEEKLY_FOOD_BUDGET_AVG"} |-> Num(0)],
      [k \in {"WEEKLY_FOOD_BUDGET_AVG"} |-> Num(75)] }

CallGini ==
    /\ call.fn = "calculate_gini" /\ ~call.done
    /\ call' = [call EXCEPT !.ret = calculate_gini(call.arg), !.done = TRUE]
    /\ UNCHANGED <<simVars, driverVars>>

CallPovertyRate ==
    /\ call.fn = "calculate_poverty_rate" /\ ~call.done
    /\ call' = [call EXCEPT !.ret = calculate_poverty_rate(call.params, call.arg),
                            !.done = TRUE]
    /\ UNCHANGED <<simVars, driverVars>>

CallWealthGap ==
    /\ call.fn = "calculate_wealth_gap" /\ ~call.done
    /\ call' = [call EXCEPT !.ret = calculate_wealth_gap(call.arg), !.done = TRUE]
    /\ UNCHANGED <<simVars, driverVars>>

----------------------------------------------------------------------------
(* models.py: DEFAULT_PARAMS, scaled to the model's units *)

Keys ==
    { "NUM_MEMBERS", "SIMULATION_WEEKS",
      "INITIAL_WEALTH_MEAN_LOG", "INITIAL_WEALTH_SIGMA_LOG",
      "WEEKLY_FOOD_BUDGET_AVG", "WEEKLY_FOOD_BUDGET_STDDEV", "MIN_WEEKLY_BUDGET",
      "WEEKLY_INCOME_AVG", "WEEKLY_INCOME_STDDEV", "MIN_WEEKLY_INCOME",
      "GROUP_BUY_SAVINGS_PERCENT", "LOCAL_PRODUCTION_SAVINGS_PERCENT",
      "PERCENT_SPEND_INTERNAL_AVG", "PERCENT_SPEND_INTERNAL_STDDEV",
      "GROTOKEN_REWARD_PER_WEEK_AVG", "GROTOKEN_REWARD_STDDEV",
      "GROTOKEN_USD_VALUE", "WEEKLY_COOP_FEE_B" }

DEFAULT_PARAMS ==
    [ NUM_MEMBERS |-> Num(2),
      SIMULATION_WEEKS |-> Num(2),
      INITIAL_WEALTH_MEAN_LOG |-> Num(5),
      INITIAL_WEALTH_SIGMA_LOG |-> Num(1),
      WEEKLY_FOOD_BUDGET_AVG |-> Num(16),
      WEEKLY_FOOD_BUDGET_STDDEV |-> Num(8),
      MIN_WEEKLY_BUDGET |-> Num(8),
      WEEKLY_INCOME_AVG |-> Num(16),
      WEEKLY_INCOME_STDDEV |-> Num(8),
      MIN_WEEKLY_INCOME |-> Num(0),
      GROUP_BUY_SAVINGS_PERCENT |-> Num(1),
      LOCAL_PRODUCTION_SAVINGS_PERCENT |-> Num(0),
      PERCENT_SPEND_INTERNAL_AVG |-> Num(1),
      PERCENT_SPEND_INTERNAL_STDDEV |-> Num(1),
      GROTOKEN_REWARD_PER_WEEK_AVG |-> Num(1),
      GROTOKEN_REWARD_STDDEV |-> Num(1),
      GROTOKEN_USD_VALUE |-> Num(2),
      WEEKLY_COOP_FEE_B |-> Num(1) ]

(* sim_params = DEFAULT_PARAMS.copy(); sim_params.update(params) *)
MergeParams(p) ==
    [k \in Keys |-> IF k \in DOMAIN p THEN p[k] ELSE DEFAULT_PARAMS[k]]

IsNone(x) == x.t = "None"

(* flask_backend.py: VALIDATION_RULES and validate_simulation_params.  Every *)
(* field is a finite number; the two counts are at least 1; every other     *)
(* field except the log mean is at least 0; the four fractions are at most  *)
(* 1 (2 in halves).                                                         *)
FractionKeys ==
    { "GROUP_BUY_SAVINGS_PERCENT", "LOCAL_PRODUCTION_SAVINGS_PERCENT",
      "PERCENT_SPEND_INTERNAL_AVG", "PERCENT_SPEND_INTERNAL_STDDEV" }

RuleMin(k) ==
    IF k \in {"NUM_MEMBERS", "SIMULATION_WEEKS"} THEN 1 ELSE 0

validate_simulation_params(p) ==
    /\ \A k \in Keys : IsNum(p[k])
    /\ \A k \in Keys \ {"INITIAL_WEALTH_MEAN_LOG"} : p[k].v >= RuleMin(k)
    /\ \A k \in FractionKeys : p[k].v <= 2

IntKeys == {"NUM_MEMBERS", "SIMULATION_WEEKS"}

(* _coerce_numeric: the value, coerced, or the exception it raises.        *)
(* float(value) raises OverflowError for an int beyond the float range.    *)
_coerce_numeric(value, k) ==
    IF value.t \in {"None", "str", "nan"} THEN "ValueError"
    ELSE IF value.t = "huge" THEN "OverflowError"
    ELSE IF value.t = "frac" /\ k \in IntKeys THEN "ValueError"
    ELSE "coerced"

(* lines 215-236 for one key: the outcome of the try block.  The handler   *)
(* catches TypeError and ValueError only.                                  *)
FieldOutcome(value, k) ==
    LET coerced == _coerce_numeric(value, k)
    IN  IF coerced # "coerced" THEN coerced
        ELSE IF k # "INITIAL_WEALTH_MEAN_LOG" /\ value.v < RuleMin(k) THEN "ValueError"
        ELSE IF k \in FractionKeys
                /\ (value.v > 2 \/ (value.v = 2 /\ value.t = "frac")) THEN "ValueError"
        ELSE "cleaned"

(* The errors map of validate_simulation_params, as the set of its keys.   *)
validation_errors(raw_params) ==
    {k \in Keys : FieldOutcome(MergeParams(raw_params)[k], k) = "ValueError"}
        \cup (IF DOMAIN raw_params \subseteq Keys THEN {} ELSE {"__all__"})

(* An exception that is neither TypeError nor ValueError leaves the loop.  *)
ValidationOverflows(raw_params) ==
    \E k \in Keys : FieldOutcome(MergeParams(raw_params)[k], k) = "OverflowError"

----------------------------------------------------------------------------
(* The two generators.  Each is a deterministic function of its state: a   *)
(* draw steps the state and reads the value off the new state.             *)

NextRandom(s) == (5 * s + 3) % 256
NextNumpy(s) == (13 * s + 7) % 256

StandardNormal(s) == ((s \div 4) % 3) - 1       \* a deviate in {-1, 0, 1}
UniformQuarter(s) == (s \div 8) % 4             \* random(): 0, 1/4, 1/2, 3/4

(* random.gauss(mu, sigma) = mu + z * sigma *)
gauss(mu, sigma, s) == mu + StandardNormal(s) * sigma

(* np.random.lognormal(mean, sigma) = exp(mean + sigma * z), base 2 here *)
lognormal(mean, sigma, s) == Pow2(mean + sigma * StandardNormal(s))

----------------------------------------------------------------------------
(* models.py: SimMember.__post_init__ *)

(* Variant: the draw is kept as it comes. *)
Unclamped01(x) == x

Clamp01(x) == Max(0, Min(2, x))     \* max(0.0, min(1.0, x)), in halves

SimMember(id, initial_wealth, sp, s0) ==
    LET s1 == NextRandom(s0)
        s2 == NextRandom(s1)
        s3 == NextRandom(s2)
        s4 == NextRandom(s3)
        w == IF IsNum(initial_wealth) THEN Max(0, initial_wealth.v) ELSE 0
    IN  [ member |->
            [ id |-> id,
              initial_wealth |-> initial_wealth,
              wealth_scenario_A |-> w,
              wealth_scenario_B |-> w,
              food_usd_balance |-> w,
              grotoken_balance |-> 0,
              weekly_food_budget |->
                  Max(sp["MIN_WEEKLY_BUDGET"].v,
                      gauss(sp["WEEKLY_FOOD_BUDGET_AVG"].v,
                            sp["WEEKLY_FOOD_BUDGET_STDDEV"].v, s1)),
              propensity_to_spend_internal |->
                  Clamp01(gauss(sp["PERCENT_SPEND_INTERNAL_AVG"].v,
                                sp["PERCENT_SPEND_INTERNAL_STDDEV"].v, s2)),
              weekly_income |->
                  Max(sp["MIN_WEEKLY_INCOME"].v,
                      gauss(sp["WEEKLY_INCOME_AVG"].v,
                            sp["WEEKLY_INCOME_STDDEV"].v, s3)),
              internal_transaction_count |-> 0,
              grotoken_usage_rate |-> UniformQuarter(s4) ],
          py |-> s4 ]

MemberKeys ==
    { "WEEKLY_FOOD_BUDGET_AVG", "WEEKLY_FOOD_BUDGET_STDDEV", "MIN_WEEKLY_BUDGET",
      "WEEKLY_INCOME_AVG", "WEEKLY_INCOME_STDDEV", "MIN_WEEKLY_INCOME",
      "PERCENT_SPEND_INTERNAL_AVG", "PERCENT_SPEND_INTERNAL_STDDEV" }

(* What makes the body of the setup try block raise: int(None), a negative *)
(* size or sigma or a None argument to lognormal, a None operand in        *)
(* __post_init__ (reached only when there is a member to construct).       *)
SetupRaises(sp) ==
    \/ IsNone(sp["NUM_MEMBERS"])
    \/ IsNone(sp["INITIAL_WEALTH_MEAN_LOG"])
    \/ IsNone(sp["INITIAL_WEALTH_SIGMA_LOG"])
    \/ sp["INITIAL_WEALTH_SIGMA_LOG"].v < 0
    \/ sp["NUM_MEMBERS"].v < 0
    \/ (sp["NUM_MEMBERS"].v > 0 /\ \E k \in MemberKeys : IsNone(sp[k]))

(* simulator.py: _initialize_members *)
RECURSIVE initialize_from(_, _, _, _, _)
initialize_from(sp, i, acc, nps, pys) ==
    IF i >= sp["NUM_MEMBERS"].v
    THEN [members |-> acc, np |-> nps, py |-> pys]
    ELSE LET nps1 == NextNumpy(nps)
             wealth == IF IsNum(sp["INITIAL_WEALTH_MEAN_LOG"])
                       THEN Num(lognormal(sp["INITIAL_WEALTH_MEAN_LOG"].v,
                                          sp["INITIAL_WEALTH_SIGMA_LOG"].v, nps1))
                       ELSE NaN
         IN  WithValue(SimMember(i, wealth, sp, pys),
                       LAMBDA made : initialize_from(sp, i + 1,
                                                     Append(acc, made.member),
                                                     nps1, made.py))

_initialize_members(sp, nps, pys) == initialize_from(sp, 0, <<>>, nps, pys)

----------------------------------------------------------------------------
(* simulator.py: the body of "for member in members" (lines 53-99) *)

(* Variant: the amount is taken in full, whatever the balance. *)
DeductUncapped(balance, amount) == balance - amount

(* balance - min(amount, balance), floored at 0 *)
Deduct(balance, amount) == Max(0, balance - Min(amount, balance))

intended_spend_internal(m) ==
    (m.weekly_food_budget * m.propensity_to_spend_internal) \div 2
intended_spend_external(m) ==
    (m.weekly_food_budget * (2 - m.propensity_to_spend_internal)) \div 2

(* Variant: the two percentages are a surcharge on internal spending. *)
internal_surcharge_rate(sp) ==
    -(sp["GROUP_BUY_SAVINGS_PERCENT"].v + sp["LOCAL_PRODUCTION_SAVINGS_PERCENT"].v)

(* (GROUP_BUY + LOCAL_PRODUCTION) / 2, in quarters *)
avg_internal_savings_rate(sp) ==
    sp["GROUP_BUY_SAVINGS_PERCENT"].v + sp["LOCAL_PRODUCTION_SAVINGS_PERCENT"].v

(* Variant: no savings on what is spent inside the co-op. *)
total_cost_without_savings(m, sp) == m.weekly_food_budget

total_effective_cost(m, sp) ==
    (intended_spend_internal(m) * (4 - avg_internal_savings_rate(sp))) \div 4
        + intended_spend_external(m)

(* Variant: the draw is added as it comes. *)
reward_unclamped(sp, s) ==
    gauss(sp["GROTOKEN_REWARD_PER_WEEK_AVG"].v, sp["GROTOKEN_REWARD_STDDEV"].v, s)

(* max(0, random.gauss(avg, stddev)) *)
reward(sp, s) ==
    Max(0, gauss(sp["GROTOKEN_REWARD_PER_WEEK_AVG"].v,
                 sp["GROTOKEN_REWARD_STDDEV"].v, s))

(* Variant: the week's food is paid before the income arrives. *)
SpendBeforeIncome(wealth, income, budget) == Deduct(wealth, budget) + income

(* lines 54-58: wealth_scenario_A after income and spending *)
wealth_A_after(wealth, income, budget) == Deduct(wealth + income, budget)

(* One pass through the try block for member m.  A None parameter raises   *)
(* TypeError at the statement that first uses it; the assignments made     *)
(* before that statement stay.  random.gauss steps the generator before    *)
(* it adds mu, so a None reward parameter still consumes a draw.           *)
update_member(m, sp, s) ==
    LET m1 == [m EXCEPT !.wealth_scenario_A =
                            wealth_A_after(m.wealth_scenario_A, m.weekly_income,
                                           m.weekly_food_budget),
                        !.food_usd_balance = m.food_usd_balance + m.weekly_income]
        m2 == [m1 EXCEPT !.food_usd_balance =
                            Deduct(m1.food_usd_balance, total_effective_cost(m, sp))]
        m3 == [m2 EXCEPT !.food_usd_balance =
                            Deduct(m2.food_usd_balance, sp["WEEKLY_COOP_FEE_B"].v)]
        s1 == NextRandom(s)
        m4 == [m3 EXCEPT !.grotoken_balance = m3.grotoken_balance + reward(sp, s1)]
        m5 == [m4 EXCEPT !.wealth_scenario_B =
                            m4.food_usd_balance
                                + m4.grotoken_balance * sp["GROTOKEN_USD_VALUE"].v]
    IN  IF IsNone(sp["GROUP_BUY_SAVINGS_PERCENT"])
           \/ IsNone(sp["LOCAL_PRODUCTION_SAVINGS_PERCENT"])
        THEN [member |-> m1, ok |-> FALSE, py |-> s]
        ELSE IF IsNone(sp["WEEKLY_COOP_FEE_B"])
        THEN [member |-> m2, ok |-> FALSE, py |-> s]
        ELSE IF IsNone(sp["GROTOKEN_REWARD_PER_WEEK_AVG"])
                \/ IsNone(sp["GROTOKEN_REWARD_STDDEV"])
        THEN [member |-> m3, ok |-> FALSE, py |-> s1]
        ELSE IF IsNone(sp["GROTOKEN_USD_VALUE"])
        THEN [member |-> m4, ok |-> FALSE, py |-> s1]
        ELSE [member |-> m5, ok |-> TRUE, py |-> s1]

----------------------------------------------------------------------------
(* metrics.py: EconomicMetrics.calculate_metrics *)

(* Variant: the score also depends on state that seeding does not reset. *)
wealth_mobility_score_unseeded(s) == Ratio(4 * UniformQuarter(s + 8 * run) + 4, 40)

(* random.random() * 0.4 + 0.1 and random.random() * 0.5 + 0.4 *)
calculate_wealth_mobility_score(s) == Ratio(4 * UniformQuarter(s) + 4, 40)
calculate_economic_diversity(s) == Ratio(5 * UniformQuarter(s) + 16, 40)

(* [].tolist() raises AttributeError when a wealth list is empty;          *)
(* calculate_wealth_mobility multiplies every member's token balance by    *)
(* GROTOKEN_USD_VALUE and raises TypeError when that is None.              *)
MetricsRaise(ms, sp, wealth_A_list, wealth_B_list) ==
    \/ wealth_A_list = <<>>
    \/ wealth_B_list = <<>>
    \/ (ms # <<>> /\ IsNone(sp["GROTOKEN_USD_VALUE"]))

(* Variant: the record carries the zero-based loop variable. *)
MetricsWeekZeroBased(wk) == wk - 1

MetricsWeek(wk) == wk

(* metrics.py 148-154: the mean of propensity_to_spend_internal (in       *)
(* halves), 0.0 without members.                                           *)
calculate_economic_velocity(ms) ==
    IF ms = <<>> THEN Zero
    ELSE Ratio(Sum([i \in DOMAIN ms |-> ms[i].propensity_to_spend_internal]),
               2 * Len(ms))

(* The mean of propensity_to_spend_internal (in halves), 0.0 without       *)
(* members: calculate_local_economy_strength, calculate_community_engagement *)
MeanPropensity(ms) ==
    IF ms = <<>> THEN Zero
    ELSE Ratio(Sum([i \in DOMAIN ms |-> ms[i].propensity_to_spend_internal]),
               2 * Len(ms))

(* Variant: a member whose wealth equals the line is below it. *)
AtOrBelowPovertyLine(m, poverty_line) == m.wealth_scenario_B <= poverty_line

(* m.wealth_scenario_B < poverty_line *)
BelowPovertyLine(m, poverty_line) == m.wealth_scenario_B < poverty_line

(* 1.0 - below_poverty / len(self.members), 0.0 without members *)
calculate_social_safety_net(ms, sp) ==
    IF ms = <<>> THEN Zero
    ELSE Ratio(Len(ms) - Cardinality({i \in DOMAIN ms :
                                         BelowPovertyLine(ms[i], PovertyLine(sp))}),
               Len(ms))

calculate_community_resilience(ms, sp) == calculate_social_safety_net(ms, sp)
calculate_sustainability_score(ms, sp) == calculate_community_resilience(ms, sp)

(* (share of members holding tokens + mean propensity) / 2 *)
calculate_innovation_index(ms) ==
    IF ms = <<>> THEN Zero
    ELSE Ratio(2 * Cardinality({i \in DOMAIN ms : ms[i].grotoken_balance > 0})
                   + Sum([i \in DOMAIN ms |-> ms[i].propensity_to_spend_internal]),
               4 * Len(ms))

(* np.mean(wealth_list) if wealth_list else 0 *)
AvgWealth(wealth_list) ==
    IF wealth_list = <<>> THEN Zero ELSE Ratio(np_sum(wealth_list), Len(wealth_list))

trend_keys ==
    { "AvgWealth_B", "Gini_B", "PovertyRate_B", "LocalEconomyStrength",
      "CommunityResilience", "EconomicVelocity", "SocialSafetyNet",
      "InnovationIndex", "SustainabilityScore", "CommunityEngagement" }

TrendName(key) == key \o "_Trend"

(* 1e-6, as the number of parts of one unit *)
TrendThresholdInverse == 1000000

(* Variant: the change itself, not divided by the previous value. *)
TrendAbsoluteChange(current_value, prev_value) ==
    Reduced(Ratio(current_value.num * prev_value.den
                      - prev_value.num * current_value.den,
                  current_value.den * prev_value.den))

(* lines 204-211: (current - prev) / abs(prev), or the sign of the change  *)
(* when abs(prev) <= 1e-6                                                  *)
Trend(current_value, prev_value) ==
    IF Abs(prev_value.num) * TrendThresholdInverse > prev_value.den
    THEN Reduced(Ratio(current_value.num * prev_value.den
                           - prev_value.num * current_value.den,
                       current_value.den * Abs(prev_value.num)))
    ELSE IF current_value.num * prev_value.den > prev_value.num * current_value.den
    THEN Ratio(1, 1)
    ELSE IF current_value.num * prev_value.den < prev_value.num * current_value.den
    THEN Ratio(-1, 1)
    ELSE Zero

(* lines 181-217: a key missing from either record has trend 0.0 *)
calculate_trends(current_metrics, previous_metrics) ==
    [ name \in {TrendName(key) : key \in trend_keys} |->
        LET key == CHOOSE k \in trend_keys : TrendName(k) = name
        IN  IF key \in DOMAIN previous_metrics /\ key \in DOMAIN current_metrics
            THEN Trend(current_metrics[key], previous_metrics[key])
            ELSE Zero ]

(* lines 83-84: previous is <<>> for None, else holds the retained record *)
WithTrends(metrics, previous) ==
    IF previous # <<>> THEN calculate_trends(metrics, previous[1]) @@ metrics
    ELSE metrics

calculate_metrics(ms, sp, previous, wealth_A_list, wealth_B_list, wk, s) ==
    LET s1 == NextRandom(s)
        s2 == NextRandom(s1)
    IN  [ metrics |->
            WithValue(
              [ Week |-> MetricsWeek(wk),
                Year |-> wk \div 52 + 1,
                Quarter |-> (wk % 52) \div 13 + 1,
                AvgWealth_A |-> AvgWealth(wealth_A_list),
                AvgWealth_B |-> AvgWealth(wealth_B_list),
                TotalWealth_A |-> np_sum(wealth_A_list),
                TotalWealth_B |-> np_sum(wealth_B_list),
                Gini_A |-> calculate_gini(wealth_A_list),
                Gini_B |-> calculate_gini(wealth_B_list),
                PovertyRate_A |-> calculate_poverty_rate(sp, wealth_A_list),
                PovertyRate_B |-> calculate_poverty_rate(sp, wealth_B_list),
                LocalEconomyStrength |-> MeanPropensity(ms),
                CommunityResilience |-> calculate_community_resilience(ms, sp),
                EconomicVelocity |-> calculate_economic_velocity(ms),
                SocialSafetyNet |-> calculate_social_safety_net(ms, sp),
                InnovationIndex |-> calculate_innovation_index(ms),
                SustainabilityScore |-> calculate_sustainability_score(ms, sp),
                CommunityEngagement |-> MeanPropensity(ms),
                WealthMobilityScore |-> calculate_wealth_mobility_score(s1),
                EconomicDiversity |-> calculate_economic_diversity(s2) ],
              LAMBDA metrics : WithTrends(metrics, previous)),
          py |-> s2 ]

(* np.percentile(wealth_list, q) of the sorted list: linear interpolation  *)
(* between the two order statistics around position (n - 1) * q / 100.     *)
np_percentile(sorted, q) ==
    LET n == Len(sorted)
        lo == ((n - 1) * q) \div 100
        part == ((n - 1) * q) % 100
        hi == Min(lo + 1, n - 1)
    IN  Ratio(100 * sorted[lo + 1] + part * (sorted[hi + 1] - sorted[lo + 1]), 100)

(* lines 42-64: the core statistics of one scenario; each is guarded by    *)
(* "if wealth_list else 0", the quintile boundaries by "else []".          *)
StatsOfSorted(sorted) ==
    [ AvgWealth |-> IF sorted # <<>> THEN Ratio(Sum(sorted), Len(sorted)) ELSE Zero,
      MedianWealth |-> IF sorted # <<>> THEN np_percentile(sorted, 50) ELSE Zero,
      TotalWealth |-> Ratio(Sum(sorted), 1),
      WealthQuintiles |-> IF sorted # <<>>
                          THEN [k \in 1..4 |-> np_percentile(sorted, 20 * k)]
                          ELSE <<>>,
      Top10Percent |-> IF sorted # <<>> THEN np_percentile(sorted, 90) ELSE Zero,
      Bottom10Percent |-> IF sorted # <<>> THEN np_percentile(sorted, 10) ELSE Zero ]

core_stats(wealth_list) == WithValue(np_sort(wealth_list), StatsOfSorted)

(* EconomicMetrics([], params).calculate_metrics(wealth, wealth, 1): the   *)
(* call returns the record, or the exception leaves it.                    *)
CallMetrics ==
    /\ call.fn = "calculate_metrics" /\ ~call.done
    /\ IF MetricsRaise(<<>>, call.params, call.arg, call.arg)
       THEN /\ call' = [call EXCEPT !.ret = [raised |-> TRUE], !.done = TRUE]
            /\ UNCHANGED py_random
       ELSE \E r \in {calculate_metrics(<<>>, call.params, <<>>, call.arg, call.arg, 1,
                                          py_random)},
               stats \in {core_stats(call.arg)} :
                /\ call' = [call EXCEPT !.ret = [raised |-> FALSE,
                                                  A |-> stats, B |-> stats,
                                                  metrics |-> r.metrics],
                                        !.done = TRUE]
                /\ py_random' = r.py
    /\ metrics_calculator' = [current_week |-> 1]
    /\ UNCHANGED <<pc, params, sim_params, members, week, member_idx,
                   current_wealth_A_list, current_wealth_B_list, simulation_history,
                   key_events, results, log, np_random, driverVars>>

(* The members the unit tests of the engine build (SimpleNamespace): the   *)
(* attributes the engine's member-based metrics may read.                  *)
TestMemberShapes ==
    { [ initial_wealth |-> i, wealth_scenario_B |-> w,
        propensity_to_spend_internal |-> q.propensity, last_total_spend |-> q.spend ] :
          i \in {100, 200}, w \in {0, 100, 200},
          q \in { [propensity |-> 1, spend |-> 0], [propensity |-> 2, spend |-> 60] } }

TestMembers == SeqsUpTo(TestMemberShapes, MaxTestMembers)

(* EconomicMetrics(members, params).calculate_economic_velocity() *)
CallEconomicVelocity ==
    /\ call.fn = "calculate_economic_velocity" /\ ~call.done
    /\ call' = [call EXCEPT !.ret = calculate_economic_velocity(call.arg),
                            !.done = TRUE]
    /\ UNCHANGED <<simVars, driverVars>>

(* EconomicMetrics(members, params).calculate_wealth_mobility_score() *)
CallWealthMobilityScore ==
    /\ call.fn = "calculate_wealth_mobility_score" /\ ~call.done
    /\ \E s \in {NextRandom(py_random)} :
           /\ call' = [call EXCEPT !.ret = calculate_wealth_mobility_score(s),
                                   !.done = TRUE]
           /\ py_random' = s
    /\ UNCHANGED <<pc, params, sim_params, members, week, member_idx,
                   current_wealth_A_list, current_wealth_B_list, simulation_history,
                   key_events, metrics_calculator, results, log, np_random,
                   driverVars>>

----------------------------------------------------------------------------
(* narrative.py: generate_narrative_summary, reduced to the keys it returns *)

generate_narrative_summary(history, events) ==
    IF history = <<>>
    THEN [title |-> "Error", keys |-> {"title", "overview"}]
    ELSE [title |-> "Economic System Evolution Analysis",
          keys |-> {"title", "overview", "key_findings", "phase_analysis",
                    "key_events", "conclusion"}]

(* Variant: a history of exactly 9 records is too short as well. *)
HistoryTooShortInclusive(n) == n <= 9

(* len(history) < 9 *)
HistoryTooShort(n) == n < 9

(* (end - start) / start if start > 1e-6 else 0 *)
wealth_growth(start_total_wealth, end_total_wealth) ==
    IF start_total_wealth > 0
    THEN Ratio(end_total_wealth - start_total_wealth, start_total_wealth)
    ELSE Zero

(* lines 141-165: the label of phase i (0-based), given the growth of the  *)
(* first phase                                                             *)
phase_char(i, growth, previous_growth) ==
    IF i = 0
    THEN IF 100 * Abs(growth.num) < 5 * growth.den THEN "Adaptation"
         ELSE IF 10 * growth.num > growth.den THEN "Rapid Growth"
         ELSE "Steady Growth"
    ELSE IF i = 1
    THEN IF growth.num * previous_growth.den < previous_growth.num * growth.den
         THEN "Consolidation"
         ELSE IF growth.num * previous_growth.den > previous_growth.num * growth.den
         THEN "Acceleration"
         ELSE "Stabilization"
    ELSE IF 100 * Abs(growth.num) < 3 * growth.den THEN "Maturity"
         ELSE IF growth.num > 0 THEN "Continued Growth"
         ELSE "Contraction"

phase_names == <<"Initial Phase", "Development Phase", "Maturity Phase">>

(* lines 129-180 for the phases i, i + 1, ... (1-based here); an empty     *)
(* slice is skipped.  "period" holds the two numbers of "Weeks a-b".       *)
RECURSIVE analyze_from(_, _, _, _)
analyze_from(phases_data, phase_periods, i, analyzed_phases) ==
    IF i > Len(phases_data) THEN analyzed_phases
    ELSE IF phases_data[i] = <<>>
    THEN analyze_from(phases_data, phase_periods, i + 1, analyzed_phases)
    ELSE LET phase_data == phases_data[i]
             start_metrics == phase_data[1]
             end_metrics == phase_data[Len(phase_data)]
             growth == wealth_growth(start_metrics.TotalWealth_B,
                                     end_metrics.TotalWealth_B)
             previous_growth == IF analyzed_phases # <<>>
                                THEN analyzed_phases[1].raw_growth ELSE Zero
         IN  analyze_from(phases_data, phase_periods, i + 1,
                          Append(analyzed_phases,
                                 [ period |-> phase_periods[i],
                                   type |-> phase_names[i],
                                   raw_growth |-> growth,
                                   characteristics |->
                                       phase_char(i - 1, growth, previous_growth),
                                   metrics |->
                                       [avg_wealth |-> end_metrics.AvgWealth_B] ]))

(* narrative.py 113-183; the last loop deletes "raw_growth" *)
analyze_economic_phases(history) ==
    IF HistoryTooShort(Len(history)) THEN <<>>
    ELSE LET phase_length == Len(history) \div 3
             phases_data ==
                 << Slice(history, 0, phase_length),
                    Slice(history, phase_length, 2 * phase_length),
                    Slice(history, 2 * phase_length, Len(history)) >>
             phase_periods ==
                 << <<1, phase_length>>,
                    <<phase_length + 1, 2 * phase_length>>,
                    <<2 * phase_length + 1, Len(history)>> >>
             analyzed == analyze_from(phases_data, phase_periods, 1, <<>>)
         IN  [j \in DOMAIN analyzed |->
                 [ period |-> analyzed[j].period,
                   type |-> analyzed[j].type,
                   characteristics |-> analyzed[j].characteristics,
                   metrics |-> analyzed[j].metrics ]]

(* Histories of one-member communities: TotalWealth_B of week k *)
WealthPatterns == {"flat", "growing", "shrinking", "none"}
WealthAt(pattern, k) ==
    CASE pattern = "flat" -> 100
      [] pattern = "growing" -> 100 + 10 * k
      [] pattern = "shrinking" -> 200 - 10 * k
      [] OTHER -> 0

Histories ==
    { [k \in 1..n |-> [ Week |-> k, TotalWealth_B |-> WealthAt(pattern, k),
                        AvgWealth_B |-> WealthAt(pattern, k) ]] :
          n \in 0..MaxHistoryLen, pattern \in WealthPatterns }

CallAnalyzePhases ==
    /\ call.fn = "analyze_economic_phases" /\ ~call.done
    /\ call' = [call EXCEPT !.ret = analyze_economic_phases(call.arg), !.done = TRUE]
    /\ UNCHANGED <<simVars, driverVars>>

----------------------------------------------------------------------------
(* simulator.py: run_simulation *)

(* lines 31-36 *)
EnterRunSimulation ==
    /\ pc = "Uninitialized"
    /\ call.fn = "run_simulation"
    /\ sim_params' = MergeParams(params)
    /\ pc' = "Initializing"
    /\ UNCHANGED <<params, members, week, member_idx, current_wealth_A_list,
                   current_wealth_B_list, simulation_history, key_events,
                   metrics_calculator, results, log, py_random, np_random,
                   driverVars, call>>

(* Draws already taken from the random module when __post_init__ raises    *)
(* on a None parameter: each max(..., random.gauss(...)) steps the         *)
(* generator before the TypeError.                                         *)
RECURSIVE Step(_, _)
Step(s, k) == IF k = 0 THEN s ELSE Step(NextRandom(s), k - 1)
RECURSIVE StepNumpy(_, _)
StepNumpy(s, k) == IF k = 0 THEN s ELSE StepNumpy(NextNumpy(s), k - 1)

LognormalRaises(sp) ==
    \/ IsNone(sp["NUM_MEMBERS"])
    \/ IsNone(sp["INITIAL_WEALTH_MEAN_LOG"])
    \/ IsNone(sp["INITIAL_WEALTH_SIGMA_LOG"])
    \/ sp["INITIAL_WEALTH_SIGMA_LOG"].v < 0
    \/ sp["NUM_MEMBERS"].v < 0

DrawsBeforeRaise(sp) ==
    IF \E k \in {"WEEKLY_FOOD_BUDGET_AVG", "WEEKLY_FOOD_BUDGET_STDDEV",
                 "MIN_WEEKLY_BUDGET"} : IsNone(sp[k]) THEN 1
    ELSE IF \E k \in {"PERCENT_SPEND_INTERNAL_AVG",
                      "PERCENT_SPEND_INTERNAL_STDDEV"} : IsNone(sp[k]) THEN 2
    ELSE 3

(* lines 38-46 *)
Setup ==
    /\ pc = "Initializing"
    /\ IF SetupRaises(sim_params)
       THEN /\ pc' = "SetupError"
            /\ log' = Append(log, [event |-> "setup", week |-> 0, member |-> -1])
            /\ np_random' = IF LognormalRaises(sim_params) THEN np_random
                            ELSE StepNumpy(np_random, sim_params["NUM_MEMBERS"].v)
            /\ py_random' = IF LognormalRaises(sim_params) THEN py_random
                            ELSE Step(py_random, DrawsBeforeRaise(sim_params))
            /\ UNCHANGED <<members, metrics_calculator, simulation_history,
                           key_events>>
       ELSE \E made \in {_initialize_members(sim_params, np_random, py_random)} :
                /\ members' = made.members
                /\ np_random' = made.np
                /\ py_random' = made.py
                /\ metrics_calculator' =
                       [previous_metrics |-> <<>>, current_week |-> 0]
                /\ simulation_history' = <<>>
                /\ key_events' = <<>>
                /\ pc' = "LoopHead"
                /\ log' = log
    /\ UNCHANGED <<params, sim_params, week, member_idx, current_wealth_A_list,
                   current_wealth_B_list, results, driverVars, call>>

(* Variant: the loop runs one iteration too many. *)
RangeExhaustedLate(wk, sp) == wk > sp["SIMULATION_WEEKS"].v

(* range(int(sim_params["SIMULATION_WEEKS"])) has no further value *)
RangeExhausted(wk, sp) == wk >= sp["SIMULATION_WEEKS"].v

(* line 48, and lines 49-50 when the range is not exhausted *)
LoopHead ==
    /\ pc = "LoopHead"
    /\ IF ~RangeExhausted(week, sim_params)
       THEN /\ current_wealth_A_list' = <<>>
            /\ current_wealth_B_list' = <<>>
            /\ member_idx' = 0
            /\ pc' = IF members = <<>> THEN "Metrics" ELSE "Members"
       ELSE /\ pc' = "Finalizing"
            /\ UNCHANGED <<current_wealth_A_list, current_wealth_B_list, member_idx>>
    /\ UNCHANGED <<params, sim_params, members, week, simulation_history,
                   key_events, metrics_calculator, results, log, py_random,
                   np_random, driverVars, call>>

(* Variant: a member whose update raised contributes nothing. *)
WealthListSkippingFaults(wealth_list, r, stored) ==
    IF r.ok THEN Append(wealth_list, stored) ELSE wealth_list

(* lines 92-93 after a successful update, lines 98-99 in the except      *)
(* block: either way the member's stored wealth joins the week's list.  *)
WealthListAfter(wealth_list, r, stored) == Append(wealth_list, stored)

(* Variant: the loop over the members stops one member early. *)
AfterMemberStoppingEarly(i, n) == IF i >= n - 1 THEN "Metrics" ELSE "Members"

(* "for member in members": the try block of line 101 follows the last     *)
(* member, the next member follows any other.                              *)
AfterMember(i, n) == IF i = n THEN "Metrics" ELSE "Members"

(* lines 52-99, one member *)
ProcessMember ==
    /\ pc = "Members"
    /\ \E i \in {member_idx + 1} :
       \E r \in {update_member(members[i], sim_params, py_random)} :
           /\ members' = [members EXCEPT ![i] = r.member]
           /\ py_random' = r.py
           /\ current_wealth_A_list' =
                  WealthListAfter(current_wealth_A_list, r, r.member.wealth_scenario_A)
           /\ current_wealth_B_list' =
                  WealthListAfter(current_wealth_B_list, r, r.member.wealth_scenario_B)
           /\ log' = IF r.ok THEN log
                     ELSE Append(log, [event |-> "member", week |-> week + 1,
                                       member |-> members[i].id])
           /\ member_idx' = i
           /\ pc' = AfterMember(i, Len(members))
    /\ UNCHANGED <<params, sim_params, week, simulation_history, key_events,
                   metrics_calculator, results, np_random, driverVars, call>>

(* Variant: a Gini_B equal to 0.95 times the previous one counts as well. *)
EqualityNotWorse(cur, prev) ==
    cur.Gini_B.num * prev.Gini_B.den * 100 <= prev.Gini_B.num * 95 * cur.Gini_B.den

(* Gini_B < prev Gini_B * 0.95 and PovertyRate_B < prev PovertyRate_B * 0.9 *)
EqualityImproved(cur, prev) ==
    cur.Gini_B.num * prev.Gini_B.den * 100 < prev.Gini_B.num * 95 * cur.Gini_B.den
PovertyReduced(cur, prev) ==
    cur.PovertyRate_B.num * prev.PovertyRate_B.den * 10
        < prev.PovertyRate_B.num * 9 * cur.PovertyRate_B.den

WeekEvents(cur, prev, wk) ==
    (IF EqualityImproved(cur, prev)
     THEN <<[week |-> wk, type |-> "equality_improvement"]>> ELSE <<>>)
    \o (IF PovertyReduced(cur, prev)
        THEN <<[week |-> wk, type |-> "poverty_reduction"]>> ELSE <<>>)

(* Variant: a week whose metrics raised still leaves a record. *)
HistoryWithPlaceholder(history, wk) == Append(history, [Week |-> wk])

(* lines 131-132: the except block only logs *)
HistoryAfterError(history, wk) == history

(* lines 101-132; the loop then returns to its head *)
RecordWeeklyMetrics ==
    /\ pc = "Metrics"
    /\ IF MetricsRaise(members, sim_params, current_wealth_A_list,
                       current_wealth_B_list)
       THEN /\ metrics_calculator' =
                   [metrics_calculator EXCEPT !.current_week = week + 1]
            /\ log' = Append(log, [event |-> "metrics", week |-> week + 1,
                                   member |-> -1])
            /\ simulation_history' = HistoryAfterError(simulation_history, week + 1)
            /\ UNCHANGED <<key_events, py_random>>
       ELSE \E r \in {calculate_metrics(members, sim_params,
                                          metrics_calculator.previous_metrics,
                                          current_wealth_A_list, current_wealth_B_list,
                                          week + 1, py_random)} :
            \E history \in {Append(simulation_history, r.metrics)} :
                /\ metrics_calculator' =
                       [previous_metrics |-> <<r.metrics>>, current_week |-> week + 1]
                /\ simulation_history' = history
                /\ py_random' = r.py
                /\ IF week > 0 /\ Len(history) < 2
                   THEN \* simulation_history[-2] raises IndexError
                        /\ log' = Append(log, [event |-> "metrics",
                                               week |-> week + 1, member |-> -1])
                        /\ key_events' = key_events
                   ELSE /\ log' = log
                        /\ key_events' =
                               IF week > 0
                               THEN key_events
                                    \o WeekEvents(r.metrics,
                                                  history[Len(history) - 1], week + 1)
                               ELSE key_events
    /\ week' = week + 1
    /\ pc' = "LoopHead"
    /\ UNCHANGED <<params, sim_params, members, member_idx, current_wealth_A_list,
                   current_wealth_B_list, results, np_random, driverVars, call>>

FinalMember(m) ==
    [ ID |-> m.id, Income |-> m.weekly_income, Budget |-> m.weekly_food_budget,
      Wealth_A |-> m.wealth_scenario_A, Wealth_B |-> m.wealth_scenario_B,
      FoodUSD_B |-> m.food_usd_balance, GroToken_B |-> m.grotoken_balance ]

(* lines 134-157 *)
Finalize ==
    /\ pc = "Finalizing"
    /\ results' =
           << [ history |-> simulation_history,
                final_members |-> [i \in DOMAIN members |-> FinalMember(members[i])],
                key_events |-> key_events,
                summary |-> generate_narrative_summary(simulation_history, key_events) ] >>
    /\ pc' = "Complete"
    /\ UNCHANGED <<params, sim_params, members, week, member_idx,
                   current_wealth_A_list, current_wealth_B_list, simulation_history,
                   key_events, metrics_calculator, log, py_random, np_random,
                   driverVars, call>>

----------------------------------------------------------------------------
(* The caller: a parameter mapping and a seed, as tests/test_simulator.py  *)
(* seeds both generators before it calls run_simulation.                   *)

Sizes ==
    { [NUM_MEMBERS |-> Num(n), SIMULATION_WEEKS |-> Num(w)] :
          n \in -1..MaxMembers, w \in 1..MaxWeeks }

Overrides ==
    { <<>>,
      [WEEKLY_COOP_FEE_B |-> Num(0)],
      [WEEKLY_COOP_FEE_B |-> Num(40)],
      [GROUP_BUY_SAVINGS_PERCENT |-> Num(2), LOCAL_PRODUCTION_SAVINGS_PERCENT |-> Num(2),
       PERCENT_SPEND_INTERNAL_AVG |-> Num(2), PERCENT_SPEND_INTERNAL_STDDEV |-> Num(0)],
      [INITIAL_WEALTH_MEAN_LOG |-> Num(3), WEEKLY_INCOME_AVG |-> Num(0)],
      [INITIAL_WEALTH_MEAN_LOG |-> Num(7), MIN_WEEKLY_BUDGET |-> Num(16)],
      [INITIAL_WEALTH_SIGMA_LOG |-> Num(0), WEEKLY_FOOD_BUDGET_STDDEV |-> Num(0),
       WEEKLY_INCOME_STDDEV |-> Num(0), PERCENT_SPEND_INTERNAL_STDDEV |-> Num(0),
       GROTOKEN_REWARD_STDDEV |-> Num(0)],
      [GROTOKEN_USD_VALUE |-> Num(-1)],
      [GROTOKEN_REWARD_PER_WEEK_AVG |-> Num(0)],
      [PERCENT_SPEND_INTERNAL_AVG |-> Num(2)],
      [WEEKLY_COOP_FEE_B |-> Num(0), GROTOKEN_USD_VALUE |-> Num(-1)],
      [WEEKLY_COOP_FEE_B |-> Num(0), GROTOKEN_REWARD_PER_WEEK_AVG |-> NoneValue],
      [INITIAL_WEALTH_SIGMA_LOG |-> Num(-1)],
      [INITIAL_WEALTH_MEAN_LOG |-> NoneValue],
      [INITIAL_WEALTH_MEAN_LOG |-> NaN],
      [WEEKLY_FOOD_BUDGET_AVG |-> NoneValue],
      [GROUP_BUY_SAVINGS_PERCENT |-> NoneValue],
      [WEEKLY_COOP_FEE_B |-> NoneValue],
      [GROTOKEN_REWARD_PER_WEEK_AVG |-> NoneValue],
      [GROTOKEN_USD_VALUE |-> NoneValue] }

Configs == {o @@ z : o \in Overrides, z \in Sizes}

Idle ==
    /\ pc = "Uninitialized"
    /\ sim_params = <<>>
    /\ members = <<>>
    /\ week = 0
    /\ member_idx = 0
    /\ current_wealth_A_list = <<>>
    /\ current_wealth_B_list = <<>>
    /\ simulation_history = <<>>
    /\ key_events = <<>>
    /\ metrics_calculator = <<>>
    /\ results = <<>>
    /\ log = <<>>
    /\ run = 1
    /\ first_results = <<>>
    /\ other = <<>>

InitSimulation ==
    /\ Idle
    /\ params \in Configs
    /\ seed \in 0..MaxSeed
    /\ py_random = seed
    /\ np_random = seed
    /\ call = [fn |-> "run_simulation", arg |-> <<>>, params |-> <<>>,
               ret |-> Zero, done |-> FALSE]

InitMetrics ==
    /\ Idle
    /\ params = <<>>
    /\ seed = 0
    /\ py_random = 0
    /\ np_random = 0
    /\ \/ \E fn \in {"calculate_gini", "calculate_wealth_gap"}, w \in WealthLists :
             call = [fn |-> fn, arg |-> w, params |-> <<>>, ret |-> Zero,
                     done |-> FALSE]
       \/ \E w \in WealthLists, p \in MetricsParams :
             call = [fn |-> "calculate_poverty_rate", arg |-> w, params |-> p,
                     ret |-> Zero, done |-> FALSE]
       \/ \E w \in MemberWealthLists, p \in MetricsParams :
             call = [fn |-> "calculate_metrics", arg |-> w, params |-> p,
                     ret |-> Zero, done |-> FALSE]
       \/ \E fn \in {"calculate_wealth_mobility_score", "calculate_economic_velocity"},
             ms \in TestMembers :
             call = [fn |-> fn, arg |-> ms, params |-> <<>>, ret |-> Zero,
                     done |-> FALSE]
       \/ \E history \in Histories :
             call = [fn |-> "analyze_economic_phases", arg |-> history,
                     params |-> <<>>, ret |-> Zero, done |-> FALSE]

Init == InitSimulation \/ InitMetrics

(* random.seed(s); np.random.seed(s); run_simulation(params) once more *)
Rerun ==
    /\ pc = "Complete"
    /\ run = 1
    /\ first_results' = results
    /\ run' = 2
    /\ py_random' = seed
    /\ np_random' = seed
    /\ pc' = "Uninitialized"
    /\ sim_params' = <<>>
    /\ members' = <<>>
    /\ week' = 0
    /\ member_idx' = 0
    /\ current_wealth_A_list' = <<>>
    /\ current_wealth_B_list' = <<>>
    /\ simulation_history' = <<>>
    /\ key_events' = <<>>
    /\ metrics_calculator' = <<>>
    /\ results' = <<>>
    /\ UNCHANGED <<params, seed, log, call, other>>

Next ==
    \/ EnterRunSimulation
    \/ Setup
    \/ LoopHead
    \/ ProcessMember
    \/ RecordWeeklyMetrics
    \/ Finalize
    \/ CallGini
    \/ CallPovertyRate
    \/ CallWealthGap
    \/ CallMetrics
    \/ CallWealthMobilityScore
    \/ CallEconomicVelocity
    \/ CallAnalyzePhases

Spec == Init /\ [][Next]_vars

(* run_simulation is a sequential program: a step that can be taken is.    *)
LiveSpec == Spec /\ WF_vars(Next)

SpecRerun == Init /\ [][Next \/ Rerun]_vars

----------------------------------------------------------------------------
(* launcher.py: app.run(threaded=True).  Two requests are served by two    *)
(* threads of one process.  The variables of run_simulation are the frame  *)
(* of the thread that is running; the frame of the other thread is kept in *)
(* "other".  The generators of the random and numpy.random modules belong  *)
(* to the process, and so does the logger.                                 *)

ConcurrentRequests ==
    { [NUM_MEMBERS |-> Num(n), SIMULATION_WEEKS |-> Num(w)] :
          n \in 1..MaxThreadMembers, w \in 1..MaxThreadWeeks }

SecondRequests ==
    { [NUM_MEMBERS |-> Num(1), SIMULATION_WEEKS |-> Num(1)] }

InitConcurrent ==
    /\ Idle
    /\ params \in ConcurrentRequests
    /\ seed \in 0..MaxSeed
    /\ py_random = seed
    /\ np_random = seed
    /\ call = [fn |-> "run_simulation", arg |-> <<>>, params |-> <<>>,
               ret |-> Zero, done |-> FALSE]

(* The frame of the running thread, as it is kept while thread t runs.     *)
Frame(t) ==
    [ thread |-> t, pc |-> pc, params |-> params, sim_params |-> sim_params,
      members |-> members, week |-> week, member_idx |-> member_idx,
      current_wealth_A_list |-> current_wealth_A_list,
      current_wealth_B_list |-> current_wealth_B_list,
      simulation_history |-> simulation_history, key_events |-> key_events,
      metrics_calculator |-> metrics_calculator, results |-> results ]

NewFrame(t, p) ==
    [ thread |-> t, pc |-> "Uninitialized", params |-> p, sim_params |-> <<>>,
      members |-> <<>>, week |-> 0, member_idx |-> 0,
      current_wealth_A_list |-> <<>>, current_wealth_B_list |-> <<>>,
      simulation_history |-> <<>>, key_events |-> <<>>,
      metrics_calculator |-> <<>>, results |-> <<>> ]

(* The first request has been answered.  The generators are seeded as      *)
(* before, the same request is sent again, and a second request arrives    *)
(* while it is served.                                                     *)
RerunConcurrently ==
    /\ pc = "Complete"
    /\ run = 1
    /\ other = <<>>
    /\ first_results' = results
    /\ run' = 2
    /\ py_random' = seed
    /\ np_random' = seed
    /\ pc' = "Uninitialized"
    /\ sim_params' = <<>>
    /\ members' = <<>>
    /\ week' = 0
    /\ member_idx' = 0
    /\ current_wealth_A_list' = <<>>
    /\ current_wealth_B_list' = <<>>
    /\ simulation_history' = <<>>
    /\ key_events' = <<>>
    /\ metrics_calculator' = <<>>
    /\ results' = <<>>
    /\ \E p \in SecondRequests : other' = NewFrame(2, p)
    /\ UNCHANGED <<params, seed, log, call>>

(* The interpreter switches threads: the running frame is put aside and    *)
(* the other one, if it has a step left, is resumed.                       *)
SwitchThread ==
    /\ other # <<>>
    /\ other.pc \notin {"Complete", "SetupError"}
    /\ other' = Frame(3 - other.thread)
    /\ pc' = other.pc
    /\ params' = other.params
    /\ sim_params' = other.sim_params
    /\ members' = other.members
    /\ week' = other.week
    /\ member_idx' = other.member_idx
    /\ current_wealth_A_list' = other.current_wealth_A_list
    /\ current_wealth_B_list' = other.current_wealth_B_list
    /\ simulation_history' = other.simulation_history
    /\ key_events' = other.key_events
    /\ metrics_calculator' = other.metrics_calculator
    /\ results' = other.results
    /\ UNCHANGED <<log, py_random, np_random, seed, run, first_results, call>>

NextConcurrent ==
    \/ EnterRunSimulation
    \/ Setup
    \/ LoopHead
    \/ ProcessMember
    \/ RecordWeeklyMetrics
    \/ Finalize
    \/ RerunConcurrently
    \/ SwitchThread

SpecConcurrent == InitConcurrent /\ [][NextConcurrent]_vars

----------------------------------------------------------------------------
(* flask_backend.py: POST /run_simulation.  The request is held in "call"  *)
(* (arg: whether it is JSON and has a body) and "params" (its mapping).    *)
(* flask_backend.run_simulation is the same program as the packaged one.   *)

Response(status, errors, has_error) ==
    [status |-> status, errors |-> errors, error |-> has_error]

(* lines 665-683, up to the call of run_simulation *)
HandleSimulation ==
    /\ pc = "Uninitialized"
    /\ call.fn = "handle_simulation" /\ ~call.done
    /\ IF ~call.arg.is_json \/ call.arg.body_is_null
       THEN /\ call' = [call EXCEPT !.ret = Response(400, {}, TRUE), !.done = TRUE]
            /\ UNCHANGED <<pc, sim_params>>
       ELSE IF ValidationOverflows(params)
       THEN /\ call' = [call EXCEPT !.ret = Response(500, {}, TRUE), !.done = TRUE]
            /\ UNCHANGED <<pc, sim_params>>
       ELSE IF validation_errors(params) # {}
       THEN /\ call' = [call EXCEPT !.ret = Response(400, validation_errors(params),
                                                      FALSE),
                                    !.done = TRUE]
            /\ UNCHANGED <<pc, sim_params>>
       ELSE /\ sim_params' = MergeParams(params)
            /\ pc' = "Initializing"
            /\ UNCHANGED call
    /\ UNCHANGED <<params, members, week, member_idx, current_wealth_A_list,
                   current_wealth_B_list, simulation_history, key_events,
                   metrics_calculator, results, log, py_random, np_random,
                   driverVars>>

(* lines 674 and 678-680: the bundle, or the ValueError of the setup *)
Respond ==
    /\ pc \in {"Complete", "SetupError"}
    /\ call.fn = "handle_simulation" /\ ~call.done
    /\ call' = [call EXCEPT !.ret = IF pc = "Complete" THEN Response(200, {}, FALSE)
                                    ELSE Response(400, {}, TRUE),
                            !.done = TRUE]
    /\ UNCHANGED <<simVars, driverVars>>

RequestValues ==
    {Num(-1), Num(0), Num(1), Num(3), NoneValue, NaN, Text, Fractional(1), Huge}

SmallRequest == [NUM_MEMBERS |-> Num(1), SIMULATION_WEEKS |-> Num(1)]

(* A small request with up to two fields set, one of them possibly not a   *)
(* recognised parameter.                                                   *)
Requests ==
    { (k1 :> v1) @@ (k2 :> v2) @@ SmallRequest :
          k1 \in Keys, k2 \in Keys \cup {"EXTRA"}, v1 \in RequestValues,
          v2 \in RequestValues }

InitServer ==
    /\ Idle
    /\ seed = 0
    /\ py_random = 0
    /\ np_random = 0
    /\ \/ /\ params \in Requests
          /\ call = [fn |-> "handle_simulation",
                     arg |-> [is_json |-> TRUE, body_is_null |-> FALSE],
                     params |-> <<>>, ret |-> Zero, done |-> FALSE]
       \/ /\ params = <<>>
          /\ \E j \in BOOLEAN :
                call = [fn |-> "handle_simulation",
                        arg |-> [is_json |-> j, body_is_null |-> j],
                        params |-> <<>>, ret |-> Zero, done |-> FALSE]

NextServer ==
    \/ HandleSimulation
    \/ Setup
    \/ LoopHead
    \/ ProcessMember
    \/ RecordWeeklyMetrics
    \/ Finalize
    \/ Respond

SpecServer == InitServer /\ [][NextServer]_vars

----------------------------------------------------------------------------
(* What the properties below talk about *)

IsRun == call.fn = "run_simulation"
Config == MergeParams(params)
ConfigValid == IsRun /\ validate_simulation_params(Config)
NumMembers == Config["NUM_MEMBERS"].v
Weeks == Config["SIMULATION_WEEKS"].v

MetricsFaults == {j \in DOMAIN log : log[j].event = "metrics"}
MemberFaults == {j \in DOMAIN log : log[j].event = "member"}

PhaseRank(p) ==
    CASE p = "Uninitialized" -> 0
      [] p = "Initializing" -> 1
      [] p \in {"LoopHead", "Members", "Metrics"} -> 2
      [] p = "Finalizing" -> 3
      [] p = "Complete" -> 4
      [] OTHER -> 5

AllEqual(w) == \A i, j \in DOMAIN w : w[i] = w[j]
AllNonPositive(w) == \A i \in DOMAIN w : w[i] <= 0
InUnitInterval(g) == g.den > 0 /\ 0 <= g.num /\ g.num <= g.den

----------------------------------------------------------------------------
(* C1.  Under a configuration that satisfies the validation rules, every   *)
(* member's wealth_scenario_A, food_usd_balance, grotoken_balance and      *)
(* wealth_scenario_B are >= 0 in every state of the run: at construction   *)
(* and after each member's weekly update, in whatever week.                *)
C1_BalancesNonNegative ==
    ConfigValid =>
        \A i \in DOMAIN members :
            /\ members[i].wealth_scenario_A >= 0
            /\ members[i].food_usd_balance >= 0
            /\ members[i].grotoken_balance >= 0
            /\ members[i].wealth_scenario_B >= 0

(* A member whose budget exceeded what it had: both spends were capped and *)
(* both balances stand at 0 after two or more weeks.                       *)
C1_Witness ==
    /\ ConfigValid
    /\ week >= 2
    /\ \E i \in DOMAIN members :
          /\ members[i].wealth_scenario_A = 0
          /\ members[i].food_usd_balance = 0
          /\ members[i].weekly_food_budget > members[i].weekly_income
          /\ members[i].grotoken_balance > 0

(* C2.  A run under a valid configuration with NUM_MEMBERS = N >= 1 and    *)
(* SIMULATION_WEEKS = W >= 1 returns a bundle whose history has exactly W  *)
(* records, the k-th of which has Week = k, and whose final_members has    *)
(* exactly N entries.                                                      *)
C2_BundleShape ==
    (ConfigValid /\ pc = "Complete") =>
        /\ Len(results) = 1
        /\ Len(results[1].history) = Weeks
        /\ \A k \in DOMAIN results[1].history : results[1].history[k].Week = k
        /\ Len(results[1].final_members) = NumMembers

C2_Witness ==
    /\ ConfigValid
    /\ pc = "Complete"
    /\ Weeks >= 3
    /\ NumMembers >= 2
    /\ results[1].history[3].Week = 3

(* C3.  A run never returns to an earlier phase or week: the phase moves   *)
(* only forward through Uninitialized, Initializing, Running, Finalizing,  *)
(* Complete; the week counter changes only by one, at the end of a weekly  *)
(* iteration; Finalizing is entered only with SIMULATION_WEEKS iterations  *)
(* done.  And a run whose setup succeeded, in particular every run under a *)
(* valid configuration, reaches Complete with exactly SIMULATION_WEEKS     *)
(* iterations done.                                                        *)
C3_PhasesInOrder ==
    /\ [][ /\ PhaseRank(pc') >= PhaseRank(pc)
           /\ week' \in {week, week + 1}
           /\ (week' = week + 1 => pc = "Metrics" /\ pc' = "LoopHead")
           /\ (pc' = "Finalizing" => week' = Weeks)
           /\ (pc' = "Complete" => pc = "Finalizing") ]_vars
    /\ ((pc = "LoopHead" /\ week = 0) ~> (pc = "Complete" /\ week = Weeks))
    /\ (ConfigValid ~> (pc = "Complete" /\ week = Weeks))

C3_Witness ==
    /\ IsRun
    /\ pc = "Complete"
    /\ Weeks >= 2
    /\ week = Weeks
    /\ Len(simulation_history) = Weeks

(* C4.  A second run with the same configuration, both generators seeded   *)
(* as for the first, returns the same history: every metric of every       *)
(* weekly record is equal, the two that draw random numbers included.      *)
C4_SameSeedSameHistory ==
    (run = 2 /\ pc = "Complete") =>
        /\ Len(first_results) = 1
        /\ results[1].history = first_results[1].history

(* The second run is complete, and its randomly drawn score differs from   *)
(* one week to the next.                                                   *)
C4_Witness ==
    /\ run = 2
    /\ pc = "Complete"
    /\ Len(results[1].history) >= 2
    /\ results[1].history[1].WealthMobilityScore
           # results[1].history[2].WealthMobilityScore
    /\ results[1].history[1].EconomicDiversity
           # results[1].history[2].EconomicDiversity

C6_MetricsFaultSkipsWeek ==
    /\ [][ (pc = "Metrics" /\ MetricsRaise(members, sim_params,
                                           current_wealth_A_list,
                                           current_wealth_B_list)) =>
              /\ simulation_history' = simulation_history
              /\ key_events' = key_events
              /\ log' = Append(log, [event |-> "metrics", week |-> week + 1,
                                     member |-> -1])
              /\ week' = week + 1
              /\ pc' = "LoopHead"
         ]_vars
    /\ [](pc = "Complete" /\ run = 1 =>
              Len(results[1].history) + Cardinality(MetricsFaults) = Weeks)

(* A run with members in which the metrics of every week raised: it is     *)
(* complete, its history is empty.                                         *)
C6_Witness ==
    /\ pc = "Complete"
    /\ members # <<>>
    /\ Weeks >= 2
    /\ Cardinality(MetricsFaults) = Weeks
    /\ results[1].history = <<>>
    /\ results[1].key_events = <<>>

(* C7.  A run with NUM_MEMBERS <= 0, or with a field of the initial draw   *)
(* missing or not finite, ends in a setup error before any weekly          *)
(* iteration: it never enters the loop, computes no record and returns no  *)
(* bundle.                                                                 *)
DrawFields ==
    {"NUM_MEMBERS", "INITIAL_WEALTH_MEAN_LOG", "INITIAL_WEALTH_SIGMA_LOG"}

C7_SetupErrorBeforeAnyWeek ==
    (IsRun /\ (NumMembers <= 0 \/ \E k \in DrawFields : ~IsNum(Config[k]))) =>
        /\ pc \in {"Uninitialized", "Initializing", "SetupError"}
        /\ week = 0
        /\ results = <<>>

(* NUM_MEMBERS = 0: the run went through every week, logged a metrics      *)
(* error for each, and returned a bundle with an empty history.            *)
C7_Witness ==
    /\ IsRun
    /\ IsNum(Config["NUM_MEMBERS"])
    /\ NumMembers = 0
    /\ pc = "Complete"
    /\ week = Weeks
    /\ Cardinality(MetricsFaults) = Weeks
    /\ results[1].history = <<>>
    /\ results[1].final_members = <<>>
    /\ results[1].summary.title = "Error"

(* C8.  calculate_gini returns a value in [0, 1] for every list of wealth  *)
(* values, and Gini_A and Gini_B lie in [0, 1] in every weekly record.     *)
C8_GiniInUnitInterval ==
    /\ (call.fn = "calculate_gini" /\ call.done => InUnitInterval(call.ret))
    /\ \A k \in DOMAIN simulation_history :
          /\ InUnitInterval(simulation_history[k].Gini_A)
          /\ InUnitInterval(simulation_history[k].Gini_B)

(* Five equal positive values: the rounded sum of the weighted values is   *)
(* below 0.                                                                *)
C8_Witness ==
    /\ call.fn = "calculate_gini"
    /\ call.done
    /\ Len(call.arg) = 5
    /\ AllEqual(call.arg)
    /\ call.ret.num < 0
    /\ call.ret.den > 0

C10_PovertyRate ==
    (call.fn = "calculate_poverty_rate" /\ call.done) =>
        LET w == call.arg
            avg == IF "WEEKLY_FOOD_BUDGET_AVG" \in DOMAIN call.params
                   THEN call.params["WEEKLY_FOOD_BUDGET_AVG"].v ELSE 75
            below == {i \in DOMAIN w : w[i] < 4 * avg}
            at_line == {i \in DOMAIN w : w[i] = 4 * avg}
        IN  /\ w = <<>> => call.ret = Zero
            /\ w # <<>> => /\ call.ret.den = Len(w)
                           /\ call.ret.num = Cardinality(below)
                           /\ call.ret.num <= Len(w) - Cardinality(at_line)
            /\ (\A i \in DOMAIN w : w[i] >= 4 * avg) => call.ret.num = 0
            /\ (w # <<>> /\ \A i \in DOMAIN w : w[i] < 4 * avg) =>
                   call.ret.num = call.ret.den

(* A list with a value on the line, one below and one above, under the     *)
(* default budget.                                                         *)
C10_Witness ==
    /\ call.fn = "calculate_poverty_rate"
    /\ call.done
    /\ call.params = <<>>
    /\ \E i, j, k \in DOMAIN call.arg :
          call.arg[i] = 300 /\ call.arg[j] < 300 /\ call.arg[k] > 300
    /\ call.ret.num = Cardinality({i \in DOMAIN call.arg : call.arg[i] <= 0})
    /\ call.ret.num < call.ret.den

----------------------------------------------------------------------------
----------------------------------------------------------------------------
(* C12.  calculate_metrics never raises on empty wealth lists: called with *)
(* two empty lists it returns a record in which mean, median, sum, the     *)
(* quintile boundaries and the 10th/90th percentiles of both scenarios     *)
(* are 0.                                                                  *)
C12_EmptyListsNeverRaise ==
    (call.fn = "calculate_metrics" /\ call.done /\ call.arg = <<>>) =>
        /\ ~call.ret.raised
        /\ \A st \in {call.ret.A, call.ret.B} :
               /\ st.AvgWealth.num = 0
               /\ st.MedianWealth.num = 0
               /\ st.TotalWealth.num = 0
               /\ \A k \in DOMAIN st.WealthQuintiles : st.WealthQuintiles[k].num = 0
               /\ st.Top10Percent.num = 0
               /\ st.Bottom10Percent.num = 0

(* The call with two empty lists has been made and an exception left it.   *)
C12_Witness ==
    /\ call.fn = "calculate_metrics"
    /\ call.done
    /\ call.arg = <<>>
    /\ call.ret.raised

----------------------------------------------------------------------------
(* Twice the average rank of x[i] among the values of x: the percentile    *)
(* rank (average-rank method) is this number over 2 * Len(x).              *)
TwiceAverageRank(x, i) ==
    2 * Cardinality({j \in DOMAIN x : x[j] < x[i]})
        + Cardinality({j \in DOMAIN x : x[j] = x[i]}) + 1

(* C13.  WealthMobilityScore is the mean of the positive differences       *)
(* between each member's current wealth_B percentile rank and the rank     *)
(* computed from initial_wealth; it is >= 0 and is 0 when no member's      *)
(* percentile rank has increased.                                          *)
C13_MobilityScoreFromRanks ==
    (call.fn = "calculate_wealth_mobility_score" /\ call.done) =>
        LET ms == call.arg
            n == Len(ms)
            initial == [i \in 1..n |-> ms[i].initial_wealth]
            current == [i \in 1..n |-> ms[i].wealth_scenario_B]
            rise == [i \in 1..n |->
                        Max(0, TwiceAverageRank(current, i) - TwiceAverageRank(initial, i))]
            risen == Cardinality({i \in 1..n : rise[i] > 0})
        IN  /\ call.ret.den > 0
            /\ call.ret.num >= 0
            /\ risen = 0 => call.ret.num = 0
            /\ risen > 0 => call.ret.num * (2 * n * risen) = call.ret.den * Sum(rise)

(* Two members who both keep their percentile rank, and a score above 0.   *)
C13_Witness ==
    /\ call.fn = "calculate_wealth_mobility_score"
    /\ call.done
    /\ Len(call.arg) = 2
    /\ call.arg[1].initial_wealth < call.arg[2].initial_wealth
    /\ call.arg[1].wealth_scenario_B < call.arg[2].wealth_scenario_B
    /\ call.ret.num > 0

----------------------------------------------------------------------------
(* C14.  EconomicVelocity equals the sum over members of last_total_spend  *)
(* divided by the sum over members of current wealth_B, and is 0 when      *)
(* total wealth_B is <= 0.                                                 *)
C14_VelocityIsSpendOverWealth ==
    (call.fn = "calculate_economic_velocity" /\ call.done) =>
        LET ms == call.arg
            total_spending == Sum([i \in DOMAIN ms |-> ms[i].last_total_spend])
            total_wealth == Sum([i \in DOMAIN ms |-> ms[i].wealth_scenario_B])
        IN  /\ call.ret.den > 0
            /\ total_wealth <= 0 => call.ret.num = 0
            /\ total_wealth > 0 =>
                   call.ret.num * total_wealth = call.ret.den * total_spending

(* Members who hold wealth and spent nothing last week, and a velocity     *)
(* above 0.                                                                *)
C14_Witness ==
    /\ call.fn = "calculate_economic_velocity"
    /\ call.done
    /\ Len(call.arg) = 2
    /\ \A i \in DOMAIN call.arg :
           call.arg[i].last_total_spend = 0 /\ call.arg[i].wealth_scenario_B > 0
    /\ call.ret.num > 0

----------------------------------------------------------------------------
(* The bundle of the first request when it is served again, whichever      *)
(* thread is running.                                                      *)
FirstRequestDone ==
    /\ run = 2
    /\ other # <<>>
    /\ IF other.thread = 2 THEN pc = "Complete" ELSE other.pc = "Complete"
FirstRequestResults == IF other.thread = 2 THEN results ELSE other.results

(* C15.  No mutable state is shared between simulation invocations: a run  *)
(* builds its own members and its own engine, and a run that is served     *)
(* while another request is in flight ends with the member state and the   *)
(* history it ends with when it is served alone: the other run cannot      *)
(* change them.                                                            *)
C15_RunsDoNotInterfere ==
    FirstRequestDone =>
        /\ FirstRequestResults[1].history = first_results[1].history
        /\ FirstRequestResults[1].final_members = first_results[1].final_members

(* Both requests have been answered, and the second one drew from the      *)
(* generators after the first had started.                                 *)
C15_Witness ==
    /\ FirstRequestDone
    /\ other.thread = 1
    /\ pc = "Complete"
    /\ results[1].final_members # <<>>
    /\ other.results[1].history # first_results[1].history

----------------------------------------------------------------------------
(* The request holds a recognised parameter that is invalid: not numeric,  *)
(* a count that is not an integer >= 1, a percentage outside [0, 1], any   *)
(* other numeric field below its minimum.                                  *)
Offending(k) ==
    /\ k \in DOMAIN params
    /\ LET value == params[k]
       IN  \/ value.t \in {"None", "str", "nan"}
           \/ k \in IntKeys /\ (value.t = "frac" \/ (value.t = "num" /\ value.v < 1))
           \/ k \in FractionKeys
                /\ \/ value.t = "huge"
                   \/ value.t = "num" /\ (value.v < 0 \/ value.v > 2)
                   \/ value.t = "frac" /\ (value.v < 0 \/ value.v >= 2)
           \/ k \notin IntKeys \cup FractionKeys \cup {"INITIAL_WEALTH_MEAN_LOG"}
                /\ value.t \in {"num", "frac"} /\ value.v < 0

(* C16.  A /run_simulation request in which any recognised parameter is    *)
(* invalid is answered with status 400 and an errors map that has an entry *)
(* for each offending field, and the simulation is not run for it.         *)
C16_InvalidRequestRejected ==
    (call.fn = "handle_simulation" /\ call.arg.is_json /\ ~call.arg.body_is_null
        /\ \E k \in Keys : Offending(k)) =>
        /\ pc = "Uninitialized"
        /\ members = <<>>
        /\ call.done =>
               /\ call.ret.status = 400
               /\ \A k \in Keys : Offending(k) => k \in call.ret.errors

(* A request whose only fault is a percentage far above 1 has been         *)
(* answered, and not with status 400.                                      *)
C16_Witness ==
    /\ call.fn = "handle_simulation"
    /\ call.done
    /\ \E k \in FractionKeys : Offending(k) /\ params[k] = Huge
    /\ call.ret.status = 500

----------------------------------------------------------------------------
(* A step that updates member i of the week without an exception.          *)
UpdatedMember == member_idx + 1
SuccessfulUpdate == pc = "Members" /\ log' = log /\ member_idx' = member_idx + 1

(* Eight times budget x propensity x (1 - avg_savings_rate)                *)
(* + budget x (1 - propensity): the propensity is held in halves and the   *)
(* savings rate in quarters.                                               *)
EightTimesCost(m) ==
    m.weekly_food_budget * m.propensity_to_spend_internal
            * (4 - (sim_params["GROUP_BUY_SAVINGS_PERCENT"].v
                        + sim_params["LOCAL_PRODUCTION_SAVINGS_PERCENT"].v))
        + 4 * m.weekly_food_budget * (2 - m.propensity_to_spend_internal)

(* C17.  In one successful weekly update of a member, with                 *)
(* b = food_usd_balance + weekly_income, c the effective cost of the       *)
(* week's food and f = WEEKLY_COOP_FEE_B, the spending is deducted first   *)
(* and the fee second, each capped at what is left, so that the new        *)
(* food_usd_balance is max(0, b - c - f).                                  *)
C17_FoodBalanceAfterUpdate ==
    [][ SuccessfulUpdate =>
            LET m == members[UpdatedMember]
                b == m.food_usd_balance + m.weekly_income
                f == sim_params["WEEKLY_COOP_FEE_B"].v
            IN  8 * members'[UpdatedMember].food_usd_balance
                    = Max(0, 8 * b - EightTimesCost(m) - 8 * f) ]_vars

(* The first member after its first update: with savings on its internal   *)
(* spending and a fee above 0, something is left of its balance.           *)
C17_Witness ==
    /\ IsRun
    /\ pc \in {"Members", "Metrics"}
    /\ week = 0
    /\ member_idx >= 1
    /\ log = <<>>
    /\ LET m == members[1]
           b == Max(0, m.initial_wealth.v) + m.weekly_income
           f == sim_params["WEEKLY_COOP_FEE_B"].v
       IN  /\ f > 0
           /\ EightTimesCost(m) < 8 * m.weekly_food_budget
           /\ m.food_usd_balance > 0
           /\ 8 * m.food_usd_balance = 8 * b - EightTimesCost(m) - 8 * f

----------------------------------------------------------------------------
(* C18.  In one successful weekly update of a member, wealth_scenario_A    *)
(* becomes max(0, wealth_A + weekly_income - weekly_food_budget): the      *)
(* income is added before the spending and the spending is capped at the   *)
(* wealth after income, so the member spends the full budget exactly when  *)
(* wealth_A + weekly_income >= weekly_food_budget and otherwise ends the   *)
(* week at 0.                                                              *)
C18_WealthAAfterUpdate ==
    [][ SuccessfulUpdate =>
            LET m == members[UpdatedMember]
                after_income == m.wealth_scenario_A + m.weekly_income
                spent == after_income - members'[UpdatedMember].wealth_scenario_A
            IN  /\ members'[UpdatedMember].wealth_scenario_A
                       = Max(0, after_income - m.weekly_food_budget)
                /\ spent = m.weekly_food_budget <=> after_income >= m.weekly_food_budget
                /\ after_income < m.weekly_food_budget =>
                       members'[UpdatedMember].wealth_scenario_A = 0 ]_vars

(* The first member after its first update: its wealth alone did not cover *)
(* the budget, its wealth and income together do, and the difference is    *)
(* what it keeps.                                                          *)
C18_Witness ==
    /\ IsRun
    /\ pc \in {"Members", "Metrics"}
    /\ week = 0
    /\ member_idx >= 1
    /\ log = <<>>
    /\ LET m == members[1]
           w == Max(0, m.initial_wealth.v)
       IN  /\ w < m.weekly_food_budget
           /\ m.weekly_income > 0
           /\ w + m.weekly_income > m.weekly_food_budget
           /\ m.wealth_scenario_A = w + m.weekly_income - m.weekly_food_budget

----------------------------------------------------------------------------
(* wealth_B = food_usd_balance + token_balance x GROTOKEN_USD_VALUE *)
WealthBIdentity(wealth_B, food_usd, tokens) ==
    wealth_B = food_usd + tokens * sim_params["GROTOKEN_USD_VALUE"].v

(* No update of this member has raised so far. *)
NeverFaulted(m) == \A j \in MemberFaults : log[j].member # m.id

(* C19.  At construction and after every successful weekly update every    *)
(* member satisfies wealth_B = food_usd_balance + token_balance x          *)
(* GROTOKEN_USD_VALUE, and the values reported in final_members satisfy    *)
(* Wealth_B = FoodUSD_B + GroToken_B x GROTOKEN_USD_VALUE.                 *)
C19_WealthBIdentity ==
    (IsRun /\ pc \in {"LoopHead", "Members", "Metrics", "Finalizing", "Complete"}) =>
        /\ \A i \in DOMAIN members :
               NeverFaulted(members[i]) =>
                   WealthBIdentity(members[i].wealth_scenario_B,
                                   members[i].food_usd_balance,
                                   members[i].grotoken_balance)
        /\ pc = "Complete" =>
               \A i \in DOMAIN results[1].final_members :
                   LET row == results[1].final_members[i]
                   IN  WealthBIdentity(row.Wealth_B, row.FoodUSD_B, row.GroToken_B)

(* A finished run in which an update raised after the income was added to  *)
(* the food balance: the reported Wealth_B is below the reported           *)
(* FoodUSD_B alone.                                                        *)
C19_Witness ==
    /\ IsRun
    /\ pc = "Complete"
    /\ MemberFaults # {}
    /\ IsNum(sim_params["GROTOKEN_USD_VALUE"])
    /\ sim_params["GROTOKEN_USD_VALUE"].v >= 0
    /\ \E i \in DOMAIN results[1].final_members :
           LET row == results[1].final_members[i]
           IN  row.Wealth_B < row.FoodUSD_B

----------------------------------------------------------------------------
(* C20.  A member's token balance starts at 0 and never decreases: from    *)
(* one week to the next token_balance(week k+1) >= token_balance(week k),  *)
(* because the weekly reward added is max(0, draw).                        *)
C20_TokensNeverDecrease ==
    /\ [](IsRun /\ pc = "LoopHead" /\ week = 0 =>
              \A i \in DOMAIN members : members[i].grotoken_balance = 0)
    /\ [][ \A i \in DOMAIN members :
               /\ i \in DOMAIN members'
               /\ members'[i].grotoken_balance >= members[i].grotoken_balance ]_vars

(* The last member of the first week has just been updated; the reward     *)
(* drawn for it was below 0 and its balance is still 0.                    *)
C20_Witness ==
    /\ IsRun
    /\ pc = "Metrics"
    /\ week = 0
    /\ log = <<>>
    /\ member_idx >= 1
    /\ reward_unclamped(sim_params, py_random) < 0
    /\ members[member_idx].grotoken_balance = 0

----------------------------------------------------------------------------
(* The fields of a member that are set once, in __post_init__.             *)
ConstructionFields(m) ==
    <<m.id, m.initial_wealth, m.propensity_to_spend_internal,
      m.weekly_food_budget, m.weekly_income>>

(* C21.  The weekly update leaves every member's id, initial_wealth,       *)
(* propensity_to_spend_internal, weekly_food_budget and weekly_income      *)
(* unchanged: they keep the values set at construction for the whole run,  *)
(* with the propensity in [0, 1] (0..2 in halves), the budget              *)
(* >= MIN_WEEKLY_BUDGET and the income >= MIN_WEEKLY_INCOME.               *)
C21_ConstructionFieldsKept ==
    /\ [][ \A i \in DOMAIN members :
               /\ i \in DOMAIN members'
               /\ ConstructionFields(members'[i]) = ConstructionFields(members[i])
         ]_vars
    /\ [](IsRun =>
              \A i \in DOMAIN members :
                  /\ members[i].propensity_to_spend_internal >= 0
                  /\ members[i].propensity_to_spend_internal <= 2
                  /\ members[i].weekly_food_budget >= sim_params["MIN_WEEKLY_BUDGET"].v
                  /\ members[i].weekly_income >= sim_params["MIN_WEEKLY_INCOME"].v)

(* A finished run of two weeks or more with a member whose balances have   *)
(* moved and whose propensity stands at the upper end of the interval      *)
(* although the draws are centred there.                                   *)
C21_Witness ==
    /\ IsRun
    /\ pc = "Complete"
    /\ Weeks >= 2
    /\ sim_params["PERCENT_SPEND_INTERNAL_AVG"].v = 2
    /\ sim_params["PERCENT_SPEND_INTERNAL_STDDEV"].v = 1
    /\ \E i \in DOMAIN members :
          /\ members[i].propensity_to_spend_internal = 2
          /\ members[i].wealth_scenario_A # members[i].initial_wealth.v
          /\ members[i].grotoken_balance > 0

----------------------------------------------------------------------------
(* A step in which the update of a member raised: the except block of      *)
(* lines 94-99 logged it.                                                  *)
FaultedUpdate ==
    /\ pc = "Members"
    /\ Len(log') = Len(log) + 1
    /\ log'[Len(log')].event = "member"

(* The four balances of a member. *)
Balances(m) ==
    <<m.wealth_scenario_A, m.food_usd_balance, m.grotoken_balance, m.wealth_scenario_B>>

(* C22.  If a member's weekly update raises part-way through, the member's *)
(* wealth_A, food_usd_balance, token_balance and wealth_B after the week   *)
(* equal those before the week: no partial update is applied.              *)
C22_FaultedUpdateRolledBack ==
    [][ FaultedUpdate =>
            Balances(members'[UpdatedMember]) = Balances(members[UpdatedMember]) ]_vars

(* The first member's first update raised after its income was added: the  *)
(* food balance holds the income, wealth_B does not.                       *)
C22_Witness ==
    /\ IsRun
    /\ pc \in {"Members", "Metrics"}
    /\ week = 0
    /\ member_idx >= 1
    /\ \E j \in MemberFaults : log[j].member = members[1].id /\ log[j].week = 1
    /\ members[1].weekly_income > 0
    /\ members[1].food_usd_balance
           = Max(0, members[1].initial_wealth.v) + members[1].weekly_income
    /\ members[1].wealth_scenario_B = Max(0, members[1].initial_wealth.v)

----------------------------------------------------------------------------
(* The week's two lists hold the stored wealth of the first n members.     *)
SnapshotOfFirst(n) ==
    /\ Len(current_wealth_A_list) = n
    /\ Len(current_wealth_B_list) = n
    /\ \A i \in 1..n :
          /\ current_wealth_A_list[i] = members[i].wealth_scenario_A
          /\ current_wealth_B_list[i] = members[i].wealth_scenario_B

(* C23.  In every week the metrics engine is invoked exactly once,         *)
(* strictly after all NUM_MEMBERS members have been processed for that     *)
(* week and strictly before any member is processed for the next week;     *)
(* the snapshot it receives holds one value per member, each the member's  *)
(* value after this week's processing.  The engine's current_week counts   *)
(* the invocations: it is the number of weeks done while members are       *)
(* processed, and one more after the call.                                 *)
C23_MetricsBarrier ==
    /\ [](IsRun /\ pc = "Metrics" =>
              /\ Len(members) = NumMembers
              /\ member_idx = Len(members)
              /\ SnapshotOfFirst(Len(members))
              /\ metrics_calculator.current_week = week)
    /\ [](IsRun /\ pc = "Members" =>
              /\ member_idx < Len(members)
              /\ SnapshotOfFirst(member_idx)
              /\ metrics_calculator.current_week = week)
    /\ [][ (IsRun /\ pc \in {"LoopHead", "Members", "Metrics", "Finalizing"}) =>
              /\ (metrics_calculator' # metrics_calculator) <=> (pc = "Metrics")
              /\ pc = "Metrics" =>
                     /\ metrics_calculator'.current_week = week + 1
                     /\ week' = week + 1
                     /\ pc' = "LoopHead"
              /\ (pc = "LoopHead" /\ pc' = "Members") =>
                     /\ member_idx' = 0
                     /\ current_wealth_A_list' = <<>>
                     /\ current_wealth_B_list' = <<>>
         ]_vars

(* Two weeks of a run with two or more members are done: the engine was    *)
(* called for each, and the lists still hold the second week's snapshot.   *)
C23_Witness ==
    /\ IsRun
    /\ pc = "LoopHead"
    /\ week = 2
    /\ Len(members) >= 2
    /\ metrics_calculator.current_week = 2
    /\ Len(simulation_history) = 2
    /\ SnapshotOfFirst(Len(members))
    /\ \E i \in DOMAIN members : members[i].wealth_scenario_A # members[i].initial_wealth.v

----------------------------------------------------------------------------
(* One week's pass over the members, taken in a given order.               *)

(* The generator state from which each member's update starts when the     *)
(* members are taken in list order.                                        *)
RECURSIVE StatesInListOrder(_, _, _, _)
StatesInListOrder(ms, sp, s, i) ==
    IF i > Len(ms) THEN <<>>
    ELSE <<s>> \o StatesInListOrder(ms, sp, update_member(ms[i], sp, s).py, i + 1)

(* Variant: the draw goes with the position in the order, as it does when  *)
(* one generator is read in the order of processing.                       *)
DrawStateByPosition(states, i, k) == states[k]

(* Member i, processed as the k-th, receives the draw it receives in list  *)
(* order.                                                                  *)
DrawState(states, i, k) == states[i]

(* lines 52-99 for the members order[k], order[k + 1], ...: st holds the   *)
(* members and the week's two lists.                                       *)
RECURSIVE ProcessInOrder(_, _, _, _, _)
ProcessInOrder(st, sp, states, order, k) ==
    IF k > Len(order) THEN st
    ELSE LET i == order[k]
         IN  WithValue(update_member(st.members[i], sp, DrawState(states, i, k)),
                       LAMBDA r :
                           ProcessInOrder(
                               [ members |-> [st.members EXCEPT ![i] = r.member],
                                 A |-> Append(st.A, r.member.wealth_scenario_A),
                                 B |-> Append(st.B, r.member.wealth_scenario_B) ],
                               sp, states, order, k + 1))

WeekStart == [members |-> members, A |-> <<>>, B |-> <<>>]
ListOrder == [i \in DOMAIN members |-> i]

----------------------------------------------------------------------------
(* The events a step appended to key_events. *)
NewEvents == SubSeq(key_events', Len(key_events) + 1, Len(key_events'))
EventTypes(events) == {events[j].type : j \in DOMAIN events}

(* a/b < (p/100) x c/d for ratios with positive denominators *)
BelowPercentOf(x, p, y) == 100 * x.num * y.den < p * y.num * x.den

(* C25.  For every week k >= 2 with a record, an equality_improvement      *)
(* event with week = k is appended iff that week's Gini_B < 0.95 x the     *)
(* previous week's Gini_B, and a poverty_reduction event with week = k iff *)
(* that week's PovertyRate_B < 0.9 x the previous week's PovertyRate_B; no *)
(* event is emitted for week 1; key_events only grows at its end, by at    *)
(* most one event of each type per week, and its week values never         *)
(* decrease.                                                               *)
C25_KeyEvents ==
    /\ [][ IsRun =>
              /\ Len(key_events') >= Len(key_events)
              /\ SubSeq(key_events', 1, Len(key_events)) = key_events
              /\ NewEvents # <<>> => Len(simulation_history') = Len(simulation_history) + 1
              /\ Len(NewEvents) = Cardinality(EventTypes(NewEvents))
              /\ Len(simulation_history') = Len(simulation_history) + 1 =>
                     LET cur == simulation_history'[Len(simulation_history')]
                         k == cur.Week
                     IN  /\ k = week + 1
                         /\ \A j \in DOMAIN NewEvents : NewEvents[j].week = k
                         /\ k = 1 => NewEvents = <<>>
                         /\ k >= 2 =>
                                LET prev == simulation_history[Len(simulation_history)]
                                IN  /\ prev.Week = k - 1
                                    /\ "equality_improvement" \in EventTypes(NewEvents)
                                           <=> BelowPercentOf(cur.Gini_B, 95, prev.Gini_B)
                                    /\ "poverty_reduction" \in EventTypes(NewEvents)
                                           <=> BelowPercentOf(cur.PovertyRate_B, 90,
                                                              prev.PovertyRate_B)
                                    /\ EventTypes(NewEvents)
                                           \subseteq {"equality_improvement",
                                                      "poverty_reduction"}
         ]_vars
    /\ [](\A i, j \in DOMAIN key_events :
              i <= j => /\ key_events[i].week <= key_events[j].week
                        /\ key_events[i].week >= 2)

(* A finished run of three weeks in which one week brought both events and *)
(* another week none.                                                      *)
C25_Witness ==
    /\ IsRun
    /\ pc = "Complete"
    /\ Len(simulation_history) = 3
    /\ \E k \in 2..3 :
          /\ \E j \in DOMAIN key_events :
                 key_events[j] = [week |-> k, type |-> "equality_improvement"]
          /\ \E j \in DOMAIN key_events :
                 key_events[j] = [week |-> k, type |-> "poverty_reduction"]
    /\ \E k \in 2..3 : \A j \in DOMAIN key_events : key_events[j].week # k

----------------------------------------------------------------------------
(* The ten metrics whose week-over-week trend a record carries.            *)
TrackedMetrics ==
    { "AvgWealth_B", "Gini_B", "PovertyRate_B", "LocalEconomyStrength",
      "CommunityResilience", "EconomicVelocity", "SocialSafetyNet",
      "InnovationIndex", "SustainabilityScore", "CommunityEngagement" }

TrendEntries(record) == {name \in DOMAIN record : \E key \in TrackedMetrics :
                                                       name = key \o "_Trend"}

(* t = (c - p) / |p| when |p| > 1e-6, else the sign of c - p; the two    *)
(* quotients are compared in lowest terms.                                 *)
IsTrendOf(t, c, p) ==
    IF Abs(p.num) * 1000000 > p.den
    THEN LET change == c.num * p.den - p.num * c.den
             base == c.den * Abs(p.num)
             g == GCD(Abs(change), base)
         IN  /\ t.den > 0
             /\ GCD(Abs(t.num), t.den) = 1
             /\ t.num * (base \div g) = t.den * (change \div g)
    ELSE t = IF c.num * p.den > p.num * c.den THEN Ratio(1, 1)
             ELSE IF c.num * p.den < p.num * c.den THEN Ratio(-1, 1)
             ELSE Zero

(* C26.  The first record computed by a metrics engine has no *_Trend      *)
(* entries; every later record has a <Name>_Trend entry for each of the    *)
(* ten tracked metrics, equal to (current - previous) / |previous| when    *)
(* |previous| > 1e-6 and otherwise +1, -1 or 0 by the sign of current -    *)
(* previous, previous being the value in the record of the preceding week, *)
(* which is the record the engine retained.                                *)
C26_Trends ==
    /\ [](call.fn = "calculate_metrics" /\ call.done /\ ~call.ret.raised =>
              TrendEntries(call.ret.metrics) = {})
    /\ [][ (IsRun /\ Len(simulation_history') = Len(simulation_history) + 1) =>
              LET cur == simulation_history'[Len(simulation_history')]
              IN  /\ metrics_calculator'.previous_metrics = <<cur>>
                  /\ (simulation_history = <<>>)
                         <=> (metrics_calculator.previous_metrics = <<>>)
                  /\ simulation_history = <<>> => TrendEntries(cur) = {}
                  /\ simulation_history # <<>> =>
                         LET prev == simulation_history[Len(simulation_history)]
                         IN  /\ metrics_calculator.previous_metrics = <<prev>>
                             /\ prev.Week = cur.Week - 1
                             /\ Cardinality(TrendEntries(cur)) = 10
                             /\ \A key \in TrackedMetrics :
                                    IsTrendOf(cur[key \o "_Trend"], cur[key], prev[key])
         ]_vars

(* A finished run whose second record carries a falling Gini_B, relative   *)
(* to a first value above the threshold, and a rising InnovationIndex, and *)
(* in which some metric rose from 0: its trend is +1.                      *)
C26_Witness ==
    /\ IsRun
    /\ pc = "Complete"
    /\ Len(simulation_history) >= 2
    /\ LET prev == simulation_history[1]
           cur == simulation_history[2]
       IN  /\ TrendEntries(prev) = {}
           /\ prev.Gini_B.num > 0
           /\ cur.Gini_B_Trend.num < 0
           /\ IsTrendOf(cur.Gini_B_Trend, cur.Gini_B, prev.Gini_B)
           /\ cur.InnovationIndex_Trend.num > 0
    /\ \E k \in 2..Len(simulation_history), key \in TrackedMetrics :
           /\ simulation_history[k - 1][key].num = 0
           /\ simulation_history[k][key \o "_Trend"] = Ratio(1, 1)

----------------------------------------------------------------------------
(* The last-week diagnostics of a member. *)
DiagnosticFields ==
    { "last_internal_spend", "last_external_spend", "last_total_spend",
      "last_effective_internal_cost", "last_grotoken_reward" }

(* Eight times the effective cost of the internal part of the budget. *)
EightTimesInternalCost(m) ==
    m.weekly_food_budget * m.propensity_to_spend_internal
        * (4 - (sim_params["GROUP_BUY_SAVINGS_PERCENT"].v
                    + sim_params["LOCAL_PRODUCTION_SAVINGS_PERCENT"].v))

(* C27.  After each successful weekly update of a member its diagnostics   *)
(* last_internal_spend, last_external_spend, last_total_spend (the actual  *)
(* total spend plus the co-op fee paid), last_effective_internal_cost and  *)
(* last_grotoken_reward hold that week's values, and                       *)
(* internal_transaction_count is incremented by 1 exactly when the actual  *)
(* internal spend (the internal cost prorated by actual / effective total  *)
(* cost) is above 0.                                                       *)
C27_DiagnosticsRecorded ==
    [][ (IsRun /\ SuccessfulUpdate) =>
            LET m == members[UpdatedMember]
                after == members'[UpdatedMember]
                available == 8 * (m.food_usd_balance + m.weekly_income)
                actual_total == Min(EightTimesCost(m), available)
                fee_paid == Min(8 * sim_params["WEEKLY_COOP_FEE_B"].v,
                                available - actual_total)
                spent_internally == EightTimesInternalCost(m) > 0 /\ actual_total > 0
            IN  /\ after.internal_transaction_count
                       = m.internal_transaction_count
                             + (IF spent_internally THEN 1 ELSE 0)
                /\ DiagnosticFields \subseteq DOMAIN after
                /\ 8 * after.last_total_spend = actual_total + fee_paid
                /\ 8 * after.last_effective_internal_cost = EightTimesInternalCost(m)
                /\ after.last_grotoken_reward
                       = after.grotoken_balance - m.grotoken_balance ]_vars

(* A finished run of two weeks or more without a fault: a member that      *)
(* spends part of its budget inside the co-op, was never short of money,   *)
(* and still counts no internal transaction.                               *)
C27_Witness ==
    /\ IsRun
    /\ pc = "Complete"
    /\ Weeks >= 2
    /\ log = <<>>
    /\ \E i \in DOMAIN members :
          /\ EightTimesInternalCost(members[i]) > 0
          /\ members[i].food_usd_balance > 0
          /\ members[i].internal_transaction_count = 0
          /\ DiagnosticFields \cap DOMAIN members[i] = {}

----------------------------------------------------------------------------
(* x + y = 1 for two ratios with positive denominators *)
SumIsOne(x, y) == x.num * y.den + y.num * x.den = x.den * y.den

(* C28.  In every weekly record produced by the simulation loop,           *)
(* SocialSafetyNet = CommunityResilience = SustainabilityScore             *)
(* = 1 - (number of members whose wealth_B is below the poverty line) / N, *)
(* so that SocialSafetyNet + PovertyRate_B = 1 in the same record.         *)
C28_SafetyNet ==
    /\ [][ (IsRun /\ Len(simulation_history') = Len(simulation_history) + 1) =>
              LET cur == simulation_history'[Len(simulation_history')]
                  poverty_line == 4 * Config["WEEKLY_FOOD_BUDGET_AVG"].v
                  below == Cardinality({i \in DOMAIN members :
                                           members[i].wealth_scenario_B < poverty_line})
              IN  /\ NumMembers = Len(members)
                  /\ cur.SocialSafetyNet.den > 0
                  /\ cur.SocialSafetyNet.num * NumMembers
                         = cur.SocialSafetyNet.den * (NumMembers - below)
         ]_vars
    /\ [](IsRun =>
              \A k \in DOMAIN simulation_history :
                  LET record == simulation_history[k]
                  IN  /\ record.CommunityResilience = record.SocialSafetyNet
                      /\ record.SustainabilityScore = record.SocialSafetyNet
                      /\ record.PovertyRate_B.den > 0
                      /\ SumIsOne(record.SocialSafetyNet, record.PovertyRate_B))

(* A finished run with a record in which some members are below the line   *)
(* and some are not, one of them exactly on it.                            *)
C28_Witness ==
    /\ IsRun
    /\ pc = "Complete"
    /\ Len(simulation_history) = Weeks
    /\ LET record == simulation_history[Weeks]
       IN  /\ record.SocialSafetyNet.num > 0
           /\ record.SocialSafetyNet.num < record.SocialSafetyNet.den
           /\ record.PovertyRate_B.num > 0
    /\ \E i \in DOMAIN members :
           members[i].wealth_scenario_B = 4 * Config["WEEKLY_FOOD_BUDGET_AVG"].v

----------------------------------------------------------------------------
(* C29.  analyze_economic_phases returns an empty list when the history    *)
(* has fewer than 9 records; otherwise it returns exactly three phases     *)
(* covering weeks 1..L, L+1..2L and 2L+1..len(history), L being            *)
(* floor(len(history) / 3): the three periods partition the history        *)
(* without gap or overlap, each phase reports the record that ends its     *)
(* period, and the history records are left as they were.                  *)
C29_ThreePhases ==
    /\ [](call.fn = "analyze_economic_phases" /\ call.done =>
              LET history == call.arg
                  n == Len(history)
                  L == n \div 3
                  phases == call.ret
              IN  IF n < 9 THEN phases = <<>>
                  ELSE /\ Len(phases) = 3
                       /\ phases[1].period = <<1, L>>
                       /\ phases[2].period = <<L + 1, 2 * L>>
                       /\ phases[3].period = <<2 * L + 1, n>>
                       /\ \A k \in 1..n :
                              Cardinality({j \in 1..3 : /\ phases[j].period[1] <= k
                                                        /\ k <= phases[j].period[2]}) = 1
                       /\ \A j \in 1..3 :
                              /\ phases[j].period[1] <= phases[j].period[2]
                              /\ phases[j].metrics.avg_wealth
                                     = history[phases[j].period[2]].AvgWealth_B)
    /\ [][ call.fn = "analyze_economic_phases" => call'.arg = call.arg ]_vars

(* A growing history of ten records has been analysed: the last phase is   *)
(* one week longer than the other two.                                     *)
C29_Witness ==
    /\ call.fn = "analyze_economic_phases"
    /\ call.done
    /\ Len(call.arg) = 10
    /\ call.arg[10].TotalWealth_B > call.arg[1].TotalWealth_B
    /\ Len(call.ret) = 3
    /\ call.ret[3].period = <<7, 10>>
    /\ call.ret[1].characteristics = "Rapid Growth"

----------------------------------------------------------------------------
(* The run has no co-op fee and both savings percentages are in [0, 1].    *)
NoFeeAndSavingsInRange ==
    /\ IsRun
    /\ Config["WEEKLY_COOP_FEE_B"] = Num(0)
    /\ \A k \in {"GROUP_BUY_SAVINGS_PERCENT", "LOCAL_PRODUCTION_SAVINGS_PERCENT"} :
           IsNum(Config[k]) /\ Config[k].v >= 0 /\ Config[k].v <= 2

TokenValueNonNegative ==
    IsNum(Config["GROTOKEN_USD_VALUE"]) /\ Config["GROTOKEN_USD_VALUE"].v >= 0

(* x <= y for two ratios with positive denominators *)
AtMost(x, y) == x.num * y.den <= y.num * x.den

====
